---------------------------- MODULE Spec2Model ----------------------------
(***************************************************************************)
(* A model of gibMacOS_GUI's core:                                         *)
(*   - FileVerification (src/src/utils/file_verification.py): the          *)
(*     chunklist generator verify_chunklist and its consumer               *)
(*     verify_file_against_chunklist;                                      *)
(*   - Downloader (src/src/downloader.py): get_string, get_bytes and       *)
(*     stream_to_file with their retry loops.                              *)
(*                                                                         *)
(* Widths are scaled down so that the state space is finite: a "unit"      *)
(* stands for one field of the wire format (a chunk record is a size unit  *)
(* followed by a digest unit, a method-1 signature is SIG_UNITS units, a   *)
(* SHA-256 digest is one unit), and the RSA modulus and exponent are small *)
(* numbers.  The comparisons and the order of the reads are those of the   *)
(* source.                                                                 *)
(***************************************************************************)
EXTENDS Integers, Sequences, FiniteSets, TLC

VARIABLES
    \* ---- FileVerification ----
    chunklist,      \* the manifest on disk: [exists, short, hdr, body]
    file,           \* the target file on disk: [exists, data]
    caller,         \* who iterates verify_chunklist
    vpc,            \* position in the caller
    gpc,            \* position in the generator verify_chunklist
    gerr,           \* the message of the exception the generator raised
    mpos,           \* read offset of the manifest's file object (units after the header)
    yielded,        \* chunk records yielded so far (the range(chunk_count) index)
    hash_ctx,       \* the running SHA-256 of the generator
    fpos,           \* read offset of the target's file object f
    fopen,          \* whether f is open
    chunk,          \* the (chunk_size, expected_hash) pair last yielded
    result,         \* what the caller returned or raised
    \* ---- Downloader ----
    retry_delay,    \* self.retry_delay, kept by the instance across operations
    bytes_downloaded, \* self.bytes_downloaded
    total,          \* self.total
    resume_header,  \* self.resume_header: the Range offset, or -1 for {}
    dfile,          \* the destination file on disk: [exists, data]
    op,             \* the operation running or last run
    args,           \* stream_to_file's parameters
    attempt,        \* the loop index of the operation
    original_retry_delay, \* stream_to_file's local
    dpc,            \* position in the operation
    body,           \* chunks of the response not yet delivered by iter_content
    ret,            \* the operation's return value
    head,           \* outcome of this attempt's HEAD request
    outcome,        \* outcome of the last GET request or of its stream
    cancel_event,   \* the shared cancellation flag
    depth,          \* nesting of stream_to_file inside itself (the 416 fallback)
    gets,           \* GET requests issued by the operation
    sleeps,         \* delays slept by the operation, in order
    only_retryable, \* every attempt of the operation so far ended in a retryable failure
    interrupted,    \* the transfer was cut after some bytes (now or by an earlier call)
    nops,           \* operations started on the instance
    overwrite,      \* what ask_overwrite_file answered: "yes", "no" or "not asked"
    callbacks,      \* bytes_downloaded as passed to callback, this attempt's calls in order
    late_chunks,    \* chunks the operation wrote after the flag was set
    \* ---- MacRecovery ----
    rpc,            \* position in download_recovery_image
    rfile,          \* the image's destination on disk: [exists, data]
    rbody,          \* chunks of the response not yet read
    downloaded,     \* download_image's local counter
    total_size,     \* download_image's local, from Content-Length (0 without)
    rresult,        \* what download_recovery_image returned or raised
    raised_in,      \* the function whose statement raised
    recovery_cancel_event, \* the flag the recovery dialog shares with MacRecovery
    progress,       \* the values passed to _update_progress, in order
    recovery_late_chunks,  \* chunks download_image wrote after the flag was set
    session,        \* self.session: no cookie, or the cookie as <<name, value>>
    info,           \* the mapping get_image_info parsed in the call at hand
    queries,        \* the requests the instance sent, in order
    rcalls,         \* calls of download_recovery_image made on the instance
    handler,        \* the handler the dialog's worker scheduled for the call
    \* ---- GibMacOSBackend.download_prod ----
    bpc,            \* position in download_prod
    position,       \* c, the position in dl_list of the file at hand (from 1)
    failed_downloads, \* the list of that name: positions of the files that failed
    attempted,      \* positions for which stream_to_file was called, in order
    raised,         \* the exception that ended download_prod
    dl_list,        \* the number of files in the product's download list
    returned,       \* what each stream_to_file returned, and the flag when
                    \* download_prod looked at it
    cancelled_outside, \* the flag was set while download_prod was not inside
                    \* stream_to_file
    \* ---- GibMacOSGUI ----
    threads,        \* the worker threads started so far, in order: [target, pc,
                    \* cancelled, requested, reenabled]
    download_queue, \* self.download_queue: the messages not yet processed
    ui_enabled,     \* the state _set_ui_state gave the controls it configures
    current_thread, \* self.current_thread: 0 for None, or the thread's position
    gui_cancel_event, \* self.cancel_event, the flag the window shares with its backend
    confirm,        \* the "Confirm Cancel" question is open
    closed          \* _on_close has destroyed the window

vvars == <<chunklist, file, caller, vpc, gpc, gerr, mpos, yielded, hash_ctx,
           fpos, fopen, chunk, result>>

dvars == <<retry_delay, bytes_downloaded, total, resume_header, dfile, op, args,
           attempt, original_retry_delay, dpc, body, ret, head, outcome,
           cancel_event, depth, gets, sleeps, only_retryable, interrupted, nops>>

\* History of the running Downloader operation.
tvars == <<overwrite, callbacks, late_chunks>>

rvars == <<rpc, rfile, rbody, downloaded, total_size, rresult, raised_in,
           recovery_cancel_event, progress, recovery_late_chunks, session, info,
           queries, rcalls, handler>>

bvars == <<bpc, position, failed_downloads, attempted, raised, dl_list, returned,
           cancelled_outside>>

gvars == <<threads, download_queue, ui_enabled, current_thread, gui_cancel_event,
           confirm, closed>>

\* What FileVerification leaves alone.
nonverifier == <<dvars, tvars, rvars, bvars, gvars>>

\* What a Downloader operation run on its own leaves alone.
nondownloader == <<vvars, rvars, bvars, gvars>>

vars == <<vvars, dvars, tvars, rvars, bvars, gvars>>

-----------------------------------------------------------------------------
(* Bounds of the model *)

\* Largest chunk count a well-formed manifest of the model declares.
MaxChunks == 2

\* Longest target file, in units.
MaxFileLen == 3

\* Length of the downloaded resource, in chunks of chunk_size bytes.
ResourceLen == 3

\* Operations run one after the other on one Downloader instance.
MaxOps == 2

\* The longest download list of a product.
BatchLen == 2

\* Calls of download_recovery_image made on one MacRecovery instance.
MaxCalls == 2

-----------------------------------------------------------------------------
(* FileVerification: constants and pure helpers *)

\* Values of one unit of manifest or file data.
Unit == {0, 1}

\* Number of values of a unit; also the range of the scaled-down digest.
RADIX == 2

\* CHUNKLIST_HEADER.size, asserted to be 0x24.
HEADER_SIZE == 36

\* CHUNK.size, asserted to be 0x24.
CHUNK_SIZE == 36

\* Units a chunk record occupies in the model: "<I32s" is a size and a digest.
CHUNK_UNITS == 2

\* f.read(256) of the method-1 signature, scaled to units.
SIG_UNITS == 2

\* f.read(32) of the method-2 hash, scaled to units.
HASH_UNITS == 1

\* APPLE_EFI_ROM_PUBLIC_KEY_1, scaled down (15 = 3 * 5).
APPLE_EFI_ROM_PUBLIC_KEY_1 == 15

\* The public exponent 0x10001, scaled down (coprime to phi(15) = 8).
PUBLIC_EXPONENT == 5

\* The PKCS#1 v1.5 prefix 0x1ff..ff00<OID> followed by zeroes where the
\* digest goes, scaled down to binary 10.
PADDING == 2

Min(a, b) == IF a < b THEN a ELSE b

\* All sequences over S of length lo..hi.
SeqsBetween(S, lo, hi) == UNION {[1..n -> S] : n \in (IF lo < 0 THEN 0 ELSE lo)..hi}

\* file_object.read(n) at offset pos: at most n units, fewer at end of file.
Read(data, pos, n) == SubSeq(data, pos + 1, Min(pos + n, Len(data)))

\* hash_ctx.update(data) of the scaled-down SHA-256.
RECURSIVE Sha256Update(_, _)
Sha256Update(h, data) ==
    IF data = <<>> THEN h
    ELSE Sha256Update((h + Head(data) + 1) % RADIX, Tail(data))

\* hashlib.sha256(data).digest()
Sha256(data) == Sha256Update(0, data)

\* The header's bytes as they are hashed (the wire form of the eight fields).
HeaderWire(hdr) ==
    << IF hdr.magic = "CNKL" THEN 1 ELSE 0, hdr.header_size, hdr.file_version,
       hdr.chunk_method, hdr.signature_method, hdr.chunk_count,
       hdr.chunk_offset, hdr.signature_offset >>

\* int.from_bytes(data, "little")
RECURSIVE FromBytesLittle(_)
FromBytesLittle(data) ==
    IF data = <<>> THEN 0
    ELSE Head(data) + RADIX * FromBytesLittle(Tail(data))

\* int.from_bytes(data, "big")
RECURSIVE FromBytesBig(_)
FromBytesBig(data) ==
    IF data = <<>> THEN 0
    ELSE Head(data) * (RADIX ^ (Len(data) - 1)) + FromBytesBig(Tail(data))

\* pow(base, exponent, modulus)
RECURSIVE Pow(_, _, _)
Pow(base, exponent, modulus) ==
    IF exponent = 0 THEN 1 % modulus
    ELSE (base * Pow(base, exponent - 1, modulus)) % modulus

\* The padded encoding the signature must decrypt to: the prefix or-ed with
\* the digest (the prefix is zero where the digest goes, so the or is a sum).
Plaintext(digest) == PADDING + digest


-----------------------------------------------------------------------------
(* FileVerification.verify_chunklist, a generator *)

\* HeaderError with the two offsets left unchecked.
HeaderErrorOffsetsUnchecked(hdr) ==
    IF hdr.magic # "CNKL" THEN "Invalid chunklist: wrong magic number"
    ELSE IF hdr.header_size # HEADER_SIZE THEN "Invalid chunklist: wrong header size"
    ELSE IF hdr.file_version # 1 THEN "Invalid chunklist: unsupported file version"
    ELSE IF hdr.chunk_method # 1 THEN "Invalid chunklist: unsupported chunk method"
    ELSE IF hdr.signature_method \notin {1, 2}
         THEN "Invalid chunklist: unsupported signature method"
    ELSE IF hdr.chunk_count <= 0 THEN "Invalid chunklist: invalid chunk count"
    ELSE "none"

\* The header validation of verify_chunklist, in the order of its checks:
\* the message of the first check that fails, or "none".
HeaderError(hdr) ==
    IF hdr.magic # "CNKL" THEN "Invalid chunklist: wrong magic number"
    ELSE IF hdr.header_size # HEADER_SIZE THEN "Invalid chunklist: wrong header size"
    ELSE IF hdr.file_version # 1 THEN "Invalid chunklist: unsupported file version"
    ELSE IF hdr.chunk_method # 1 THEN "Invalid chunklist: unsupported chunk method"
    ELSE IF hdr.signature_method \notin {1, 2}
         THEN "Invalid chunklist: unsupported signature method"
    ELSE IF hdr.chunk_count <= 0 THEN "Invalid chunklist: invalid chunk count"
    ELSE IF hdr.chunk_offset # 36 THEN "Invalid chunklist: wrong chunk offset"
    ELSE IF hdr.signature_offset # hdr.chunk_offset + CHUNK_SIZE * hdr.chunk_count
         THEN "Invalid chunklist: wrong signature offset"
    ELSE "none"

\* The first resumption, up to the chunk loop: the existence check, the read
\* of the header and its validation.
OpenError(cl) ==
    IF ~cl.exists THEN "Chunklist file not found"
    ELSE IF cl.short THEN "Invalid chunklist: header too short"
    ELSE HeaderError(cl.hdr)

\* SignatureError1 with the comparison of the decrypted signature left out.
SignatureError1Unchecked(data, digest) ==
    IF Len(data) # SIG_UNITS THEN "Invalid chunklist: signature truncated"
    ELSE "none"

\* SignatureError1 with the signature read most significant byte first.
SignatureError1BigEndian(data, digest) ==
    IF Len(data) # SIG_UNITS THEN "Invalid chunklist: signature truncated"
    ELSE IF Pow(FromBytesBig(data), PUBLIC_EXPONENT, APPLE_EFI_ROM_PUBLIC_KEY_1)
            # Plaintext(digest)
         THEN "Invalid chunklist: signature verification failed"
    ELSE "none"

\* The method-1 branch: the message of the failure, or "none".
SignatureError1(data, digest) ==
    IF Len(data) # SIG_UNITS THEN "Invalid chunklist: signature truncated"
    ELSE IF Pow(FromBytesLittle(data), PUBLIC_EXPONENT, APPLE_EFI_ROM_PUBLIC_KEY_1)
            # Plaintext(digest)
         THEN "Invalid chunklist: signature verification failed"
    ELSE "none"

\* SignatureError2 without the final raise: a matching bare hash is accepted.
SignatureError2HashAccepted(data, digest) ==
    IF data # <<digest>> THEN "Invalid chunklist: hash verification failed"
    ELSE "none"

\* The method-2 branch, which raises in either case.
SignatureError2(data, digest) ==
    IF data # <<digest>> THEN "Invalid chunklist: hash verification failed"
    ELSE "Chunklist missing digital signature"

\* TrailingError with the final read left out.
TrailingErrorIgnored(data) == "none"

\* The final read: any unit left after the signature is an error.
TrailingError(data) ==
    IF data # <<>> THEN "Invalid chunklist: extra data after signature" ELSE "none"

\* The exception class of a message.
ErrorType(msg) ==
    IF msg = "Chunklist file not found" THEN "FileNotFoundError"
    ELSE IF msg = "Chunklist missing digital signature" THEN "RuntimeError"
    ELSE "ValueError"

\* The generator runs only while its caller waits in next().
GenRaise(msg) ==
    /\ gpc' = "raised"
    /\ gerr' = msg

\* First next(): lines 46-85.
VerifyChunklistOpen ==
    /\ vpc = "next"
    /\ gpc = "start"
    /\ LET err == OpenError(chunklist) IN
         IF err # "none"
         THEN /\ GenRaise(err)
              /\ UNCHANGED hash_ctx
         ELSE /\ gpc' = "chunks"
              /\ hash_ctx' = Sha256Update(0, HeaderWire(chunklist.hdr))
              /\ UNCHANGED gerr
    /\ UNCHANGED <<chunklist, file, caller, vpc, mpos, yielded, fpos, fopen,
                   chunk, result,
                   nonverifier>>

\* One iteration of the chunk loop: lines 88-95.
VerifyChunklistChunk ==
    /\ vpc = "next"
    /\ gpc = "chunks"
    /\ yielded < chunklist.hdr.chunk_count
    /\ LET data == Read(chunklist.body, mpos, CHUNK_UNITS) IN
         /\ mpos' = mpos + Len(data)
         /\ IF Len(data) # CHUNK_UNITS
            THEN /\ GenRaise("Invalid chunklist: chunk data truncated")
                 /\ UNCHANGED <<hash_ctx, yielded, chunk, vpc>>
            ELSE /\ hash_ctx' = Sha256Update(hash_ctx, data)
                 /\ yielded' = yielded + 1
                 /\ chunk' = <<data[1], data[2]>>
                 /\ vpc' = "body"
                 /\ UNCHANGED <<gpc, gerr>>
    /\ UNCHANGED <<chunklist, file, caller, fpos, fopen, result,
                   nonverifier>>

\* After the loop: lines 97-122.
VerifyChunklistSignature ==
    /\ vpc = "next"
    /\ gpc = "chunks"
    /\ yielded >= chunklist.hdr.chunk_count
    /\ LET digest == hash_ctx
           n      == IF chunklist.hdr.signature_method = 1 THEN SIG_UNITS
                     ELSE HASH_UNITS
           data   == Read(chunklist.body, mpos, n)
           err    == IF chunklist.hdr.signature_method = 1
                     THEN SignatureError1(data, digest)
                     ELSE SignatureError2(data, digest)
       IN
         /\ mpos' = mpos + Len(data)
         /\ IF err # "none"
            THEN GenRaise(err)
            ELSE /\ gpc' = "trailing"
                 /\ UNCHANGED gerr
    /\ UNCHANGED <<chunklist, file, caller, vpc, yielded, hash_ctx, fpos, fopen,
                   chunk, result,
                   nonverifier>>

\* Lines 124-126, then the generator returns (StopIteration).
VerifyChunklistTrailing ==
    /\ vpc = "next"
    /\ gpc = "trailing"
    /\ LET data == Read(chunklist.body, mpos, 1)
           err  == TrailingError(data)
       IN
         /\ mpos' = mpos + Len(data)
         /\ IF err # "none"
            THEN GenRaise(err)
            ELSE /\ gpc' = "done"
                 /\ UNCHANGED gerr
    /\ UNCHANGED <<chunklist, file, caller, vpc, yielded, hash_ctx, fpos, fopen,
                   chunk, result,
                   nonverifier>>

-----------------------------------------------------------------------------
(* FileVerification.verify_file_against_chunklist *)

\* Lines 141-145: the existence check and the open of the with statement.
VerifyFileStart ==
    /\ caller = "verify_file_against_chunklist"
    /\ vpc = "start"
    /\ IF ~file.exists
       THEN /\ result' = "FileNotFoundError"
            /\ vpc' = "done"
            /\ UNCHANGED fopen
       ELSE /\ fopen' = TRUE
            /\ vpc' = "next"
            /\ UNCHANGED result
    /\ UNCHANGED <<chunklist, file, caller, gpc, gerr, mpos, yielded, hash_ctx,
                   fpos, chunk,
                   nonverifier>>

\* The loop body's verdict on one chunk, lines 148-155: "return False" or "continue".
ChunkVerdict(chunk_data, chunk_size, expected_hash) ==
    IF Len(chunk_data) # chunk_size THEN "return False"
    ELSE IF Sha256(chunk_data) # expected_hash THEN "return False"
    ELSE "continue"

\* The loop body; a return inside the with statement closes f.
VerifyFileBody ==
    /\ caller = "verify_file_against_chunklist"
    /\ vpc = "body"
    /\ LET chunk_data == Read(file.data, fpos, chunk[1]) IN
         /\ fpos' = fpos + Len(chunk_data)
         /\ IF ChunkVerdict(chunk_data, chunk[1], chunk[2]) = "return False"
            THEN /\ result' = "False"
                 /\ fopen' = FALSE
                 /\ vpc' = "done"
            ELSE /\ vpc' = "next"
                 /\ UNCHANGED <<result, fopen>>
    /\ UNCHANGED <<chunklist, file, caller, gpc, gerr, mpos, yielded, hash_ctx,
                   chunk,
                   nonverifier>>

\* LeftoverVerdict with the leftover check left out: True once the loop ends.
LeftoverVerdictOmitted(open, data, pos) == "True"

\* Lines 157-161, which follow the with statement: f.read(1) on the file
\* object, which raises ValueError when f is closed (caught by line 163).
LeftoverVerdict(open, data, pos) ==
    IF ~open THEN "False"
    ELSE IF Read(data, pos, 1) # <<>> THEN "False"
    ELSE "True"

\* The generator is exhausted: the with statement ends, closing f, and the
\* leftover check runs.
VerifyFileAfterLoop ==
    /\ caller = "verify_file_against_chunklist"
    /\ vpc = "next"
    /\ gpc = "done"
    /\ fopen' = FALSE
    /\ result' = LeftoverVerdict(fopen', file.data, fpos)
    /\ vpc' = "done"
    /\ UNCHANGED <<chunklist, file, caller, gpc, gerr, mpos, yielded, hash_ctx,
                   fpos, chunk,
                   nonverifier>>

\* VerifyFileExcept without the except clause: the exception leaves the call.
VerifyFileExceptPropagates ==
    /\ caller = "verify_file_against_chunklist"
    /\ vpc = "next"
    /\ gpc = "raised"
    /\ fopen' = FALSE
    /\ result' = ErrorType(gerr)
    /\ vpc' = "done"
    /\ UNCHANGED <<chunklist, file, caller, gpc, gerr, mpos, yielded, hash_ctx,
                   fpos, chunk,
                   nonverifier>>

\* Lines 163-164: any exception of the generator becomes False.
VerifyFileExcept ==
    /\ caller = "verify_file_against_chunklist"
    /\ vpc = "next"
    /\ gpc = "raised"
    /\ fopen' = FALSE
    /\ result' = "False"
    /\ vpc' = "done"
    /\ UNCHANGED <<chunklist, file, caller, gpc, gerr, mpos, yielded, hash_ctx,
                   fpos, chunk,
                   nonverifier>>

-----------------------------------------------------------------------------
(* A caller that iterates verify_chunklist itself, to exhaustion *)

IterateStart ==
    /\ caller = "verify_chunklist"
    /\ vpc = "start"
    /\ vpc' = "next"
    /\ UNCHANGED <<chunklist, file, caller, gpc, gerr, mpos, yielded, hash_ctx,
                   fpos, fopen, chunk, result,
                   nonverifier>>

IterateBody ==
    /\ caller = "verify_chunklist"
    /\ vpc = "body"
    /\ vpc' = "next"
    /\ UNCHANGED <<chunklist, file, caller, gpc, gerr, mpos, yielded, hash_ctx,
                   fpos, fopen, chunk, result,
                   nonverifier>>

IterateEnd ==
    /\ caller = "verify_chunklist"
    /\ vpc = "next"
    /\ gpc \in {"done", "raised"}
    /\ result' = (IF gpc = "done" THEN "exhausted" ELSE ErrorType(gerr))
    /\ vpc' = "done"
    /\ UNCHANGED <<chunklist, file, caller, gpc, gerr, mpos, yielded, hash_ctx,
                   fpos, fopen, chunk,
                   nonverifier>>

-----------------------------------------------------------------------------
(* Downloader: constants and the retry decisions *)

\* self.max_retries
MAX_RETRIES == 5

\* self.retry_delay as __init__ sets it
RETRY_DELAY == 3

\* range(self.max_retries + 1): the attempts of one operation
Attempts == MAX_RETRIES + 1

\* The resource on the server, chunk by chunk (each chunk distinct).
Resource == [i \in 1..ResourceLen |-> i]

\* The statuses for which raise_for_status raises, as far as the model's
\* servers use them.
ErrorStatuses == {400, 403, 404, 416, 429, 503}

\* The statuses stream_to_file retries.
RetryStatuses == {429, 500, 502, 503, 504}

\* The outcomes of session.get other than a response that passes
\* raise_for_status, and of iter_content other than a chunk.
HttpError(status) == [kind |-> "HTTPError", status |-> status, length |-> FALSE]
\* requests.exceptions.ConnectionError or requests.exceptions.Timeout, which
\* share one except clause.
NetworkError == [kind |-> "ConnectionError, Timeout", status |-> 0, length |-> FALSE]
\* Any other exception (RetryError, ChunkedEncodingError, ...).
OtherError == [kind |-> "Exception", status |-> 0, length |-> FALSE]
\* A 200 or 206 response, with or without a Content-Length header.
Ok(status, length) == [kind |-> "ok", status |-> status, length |-> length]
NoOutcome == [kind |-> "none", status |-> 0, length |-> FALSE]

StreamErrors == {NetworkError, OtherError}
GetErrors == {HttpError(st) : st \in ErrorStatuses} \cup StreamErrors

\* A failure the claims call retryable: 429, a retried 5xx, a connection
\* error or a timeout.
Retryable(o) ==
    \/ o = NetworkError
    \/ o.kind = "HTTPError" /\ o.status \in RetryStatuses

\* The retry condition of every handler, never satisfied on the last attempt.
CanRetryAlways(att) == att < MAX_RETRIES + 1

\* "attempt < self.max_retries"
CanRetry(att) == att < MAX_RETRIES

\* The except HTTPError clause with 4xx statuses retried like 5xx ones.
HttpErrorActionRetry4xx(status, allow_resume, resume_bytes, att) ==
    IF status = 416 /\ allow_resume /\ resume_bytes > 0 THEN "restart"
    ELSE IF CanRetry(att) THEN "retry"
    ELSE "return None"

\* The except HTTPError clause of stream_to_file, lines 310-351.
HttpErrorAction(status, allow_resume, resume_bytes, att) ==
    IF status = 416 /\ allow_resume /\ resume_bytes > 0 THEN "restart"
    ELSE IF status \in RetryStatuses /\ CanRetry(att) THEN "retry"
    ELSE IF status = 404 THEN "return None"
    ELSE IF status = 403 THEN "return None"
    ELSE "return None"

\* The except clauses of stream_to_file, lines 310-377: what follows outcome o.
FailureAction(o, allow_resume, resume_bytes, att) ==
    IF o.kind = "HTTPError"
    THEN HttpErrorAction(o.status, allow_resume, resume_bytes, att)
    ELSE IF CanRetry(att) THEN "retry"
    ELSE "return None"

\* The Range offset a request carries (0 without a Range header).
RangeOffset == IF resume_header = -1 THEN 0 ELSE resume_header

\* os.path.getsize of the destination.
FileSize == Len(dfile.data)

\* The file open() leaves on disk: "wb" truncates, "ab" keeps what is there.
Opened(mode) ==
    IF mode = "ab" /\ dfile.exists THEN dfile
    ELSE [exists |-> TRUE, data |-> <<>>]

NoFile == [exists |-> FALSE, data |-> <<>>]

\* The first n chunks of the resource.
Prefix(n) == SubSeq(Resource, 1, n)

\* The parameters of stream_to_file while no stream_to_file runs.
NoArgs == [resume_bytes |-> 0, total_bytes |-> -1, allow_resume |-> TRUE,
           parent_window |-> "None"]

\* An operation may start: none is running, and fewer than limit have run.
\* The locals of a finished operation stay readable until the next starts.
\* The model runs one transfer at a time: the Downloader and MacRecovery
\* share no state, so their steps need not be interleaved.
CanStart(limit) == dpc \in {"idle", "done"} /\ nops < limit /\ rpc = "idle"

\* self.session is None, or a request carries no Cookie header (a cookie
\* is <<name, value>>).
NoCookie == <<>>

\* The mapping before get_image_info has parsed anything.
NoInfo == [k \in {} |-> ""]

\* No recovery image download has started.
RecoveryNotStarted ==
    /\ rpc = "idle"
    /\ rbody = <<>>
    /\ downloaded = 0
    /\ total_size = 0
    /\ rresult = <<"none", "">>
    /\ raised_in = "none"
    /\ recovery_cancel_event = FALSE
    /\ progress = <<>>
    /\ recovery_late_chunks = 0
    /\ session = NoCookie
    /\ info = NoInfo
    /\ queries = <<>>
    /\ rcalls = 0
    /\ handler = "none"

\* No recovery image download has started and nothing is at its destination.
RecoveryIdle ==
    /\ RecoveryNotStarted
    /\ rfile = NoFile

\* No main window has been constructed.
GuiIdle ==
    /\ threads = <<>>
    /\ download_queue = <<>>
    /\ ui_enabled = TRUE
    /\ current_thread = 0
    /\ gui_cancel_event = FALSE
    /\ confirm = FALSE
    /\ closed = FALSE

\* download_prod has not been called.
BatchIdle ==
    /\ bpc = "idle"
    /\ position = 0
    /\ failed_downloads = <<>>
    /\ attempted = <<>>
    /\ raised = "none"
    /\ dl_list = 0
    /\ returned = <<>>
    /\ cancelled_outside = FALSE

\* The Downloader as __init__ leaves it, no operation started.
Constructed ==
    /\ retry_delay = RETRY_DELAY
    /\ bytes_downloaded = 0
    /\ total = -1
    /\ resume_header = -1
    /\ op = "none"
    /\ args = NoArgs
    /\ attempt = 0
    /\ original_retry_delay = RETRY_DELAY
    /\ dpc = "idle"
    /\ body = <<>>
    /\ ret = "none"
    /\ head = "none"
    /\ outcome = NoOutcome
    /\ cancel_event = FALSE
    /\ depth = 0
    /\ gets = 0
    /\ sleeps = <<>>
    /\ only_retryable = TRUE
    /\ interrupted = FALSE
    /\ nops = 0
    /\ overwrite = "not asked"
    /\ callbacks = <<>>
    /\ late_chunks = 0

-----------------------------------------------------------------------------
(* Downloader.stream_to_file *)

\* "return None" (or a path) from anywhere in the operation.
Return(value) ==
    /\ ret' = value
    /\ dpc' = "done"

\* time.sleep(self.retry_delay); self.retry_delay *= 2; continue
SleepAndContinue ==
    /\ sleeps' = Append(sleeps, retry_delay)
    /\ retry_delay' = retry_delay * 2
    /\ attempt' = attempt + 1
    /\ dpc' = "attempt"

\* Lines 201-213 with the existing file always written over when a window
\* is there to ask.
KeepsExistingUnasked(exists, resume_bytes, parent_window, answer) ==
    exists /\ resume_bytes = 0 /\ parent_window = "None"

\* Lines 201-213: the destination exists, no resume offset is given, and
\* nobody agrees to write over it (answer is what the dialog returns).
KeepsExisting(exists, resume_bytes, parent_window, answer) ==
    exists /\ resume_bytes = 0 /\ (parent_window = "None" \/ ~answer)

\* Lines 200-215: the call of stream_to_file up to its loop.  answer is what
\* ask_overwrite_file returns if it is called.
StreamToFileCall(resume_bytes, total_bytes, allow_resume, parent_window, answer) ==
    /\ op' = "stream_to_file"
    /\ args' = [resume_bytes |-> resume_bytes, total_bytes |-> total_bytes,
                allow_resume |-> allow_resume, parent_window |-> parent_window]
    /\ overwrite' = (IF dfile.exists /\ resume_bytes = 0 /\ parent_window # "None"
                     THEN (IF answer THEN "yes" ELSE "no")
                     ELSE "not asked")
    /\ callbacks' = <<>>
    /\ late_chunks' = 0
    /\ depth' = 0
    /\ gets' = 0
    /\ sleeps' = <<>>
    /\ only_retryable' = TRUE
    /\ head' = "none"
    /\ outcome' = NoOutcome
    /\ body' = <<>>
    /\ attempt' = 0
    /\ interrupted' = (allow_resume /\ resume_bytes > 0 /\ resume_bytes < ResourceLen
                        /\ dfile.data = Prefix(resume_bytes))
    /\ IF KeepsExisting(dfile.exists, resume_bytes, parent_window, answer)
       THEN /\ Return("None")
            /\ UNCHANGED original_retry_delay
       ELSE /\ original_retry_delay' = retry_delay
            /\ ret' = "none"
            /\ dpc' = "attempt"
    /\ UNCHANGED <<retry_delay, bytes_downloaded, total, resume_header, dfile>>

\* stream_to_file called on its own.  The caller clears the cancellation
\* flag before it starts an operation; resume_bytes is 0 or the size of the
\* file on disk, as download_prod computes it.
StreamToFile(limit, resume_bytes, total_bytes, allow_resume, parent_window, answer) ==
    /\ CanStart(limit)
    /\ nops' = nops + 1
    /\ cancel_event' = FALSE
    /\ StreamToFileCall(resume_bytes, total_bytes, allow_resume, parent_window, answer)

\* The head of the loop, lines 217-231, and its exit, lines 379-381.
StreamAttempt ==
    /\ op = "stream_to_file"
    /\ dpc = "attempt"
    /\ IF attempt >= Attempts
       THEN /\ retry_delay' = original_retry_delay
            /\ Return("None")
            /\ UNCHANGED <<bytes_downloaded, total, resume_header, head, callbacks>>
       ELSE /\ bytes_downloaded' = args.resume_bytes
            /\ total' = args.total_bytes
            /\ head' = "none"
            /\ callbacks' = <<>>
            /\ UNCHANGED retry_delay
            /\ IF cancel_event
               THEN /\ Return("None")
                    /\ UNCHANGED resume_header
               ELSE /\ resume_header' =
                         (IF args.allow_resume /\ args.resume_bytes > 0
                          THEN args.resume_bytes ELSE -1)
                    /\ dpc' = (IF args.total_bytes = -1 /\ args.allow_resume
                                  /\ args.resume_bytes > 0
                               THEN "head" ELSE "get")
                    /\ UNCHANGED ret
    /\ UNCHANGED <<dfile, op, args, attempt, original_retry_delay, body, outcome,
                   cancel_event, depth, gets, sleeps, only_retryable, interrupted, nops,
                   overwrite, late_chunks>>

\* Lines 233-247: the HEAD request for the size; its failure is swallowed.
\* h is "ok" (Content-Length is the resource's size), "no length" (the
\* header is absent, read as 0) or "failed".
StreamHead(h) ==
    /\ op = "stream_to_file"
    /\ dpc = "head"
    /\ IF cancel_event
       THEN /\ Return("None")
            /\ UNCHANGED <<head, total>>
       ELSE /\ head' = h
            /\ total' = (IF h = "ok" THEN ResourceLen
                         ELSE IF h = "no length" THEN 0 ELSE total)
            /\ dpc' = "get"
            /\ UNCHANGED ret
    /\ UNCHANGED <<retry_delay, bytes_downloaded, resume_header, dfile, op, args,
                   attempt, original_retry_delay, body, outcome, cancel_event,
                   depth, gets, sleeps, only_retryable, interrupted, nops>>
    /\ UNCHANGED tvars

\* The 416 fallback with the parameters of the failed call passed on.
RestartArgsKept == args

\* The 416 fallback restarting from offset zero with resume still allowed
\* and the offset of the failed call.
RestartArgsResuming == [resume_bytes |-> args.resume_bytes, total_bytes |-> -1,
                        allow_resume |-> TRUE, parent_window |-> "None"]

\* Lines 321-329: the parameters of the call the 416 fallback makes.
RestartArgs == [resume_bytes |-> 0, total_bytes |-> -1,
                allow_resume |-> FALSE, parent_window |-> "None"]

\* What the except clauses do with a failed GET or a failed stream o.
Fail(o) ==
    LET act == FailureAction(o, args.allow_resume, args.resume_bytes, attempt) IN
      /\ outcome' = o
      /\ only_retryable' = (only_retryable /\ Retryable(o))
      /\ CASE act = "restart" ->
                \* lines 319-329: remove the file and call stream_to_file
                \* again; its result is returned as it is.
                /\ dfile' = NoFile
                /\ args' = RestartArgs
                /\ depth' = depth + 1
                /\ original_retry_delay' = retry_delay
                /\ attempt' = 0
                /\ dpc' = "attempt"
                /\ UNCHANGED <<retry_delay, sleeps, ret>>
           [] act = "retry" ->
                /\ SleepAndContinue
                /\ UNCHANGED <<dfile, args, depth, original_retry_delay, ret>>
           [] OTHER ->
                /\ Return("None")
                /\ UNCHANGED <<dfile, args, depth, original_retry_delay, attempt,
                               retry_delay, sleeps>>

\* Lines 249-276: the GET request, the size from its headers, the open of
\* the destination.  A server answers a Range inside the resource with the
\* rest of the resource, and tells its length if it tells one.
StreamGet(o) ==
    /\ op = "stream_to_file"
    /\ dpc = "get"
    /\ IF cancel_event
       THEN /\ Return("None")
            /\ UNCHANGED <<total, dfile, args, attempt, original_retry_delay, body,
                           outcome, depth, gets, sleeps, only_retryable, retry_delay>>
       ELSE /\ gets' = gets + 1
            /\ IF o.kind = "ok"
               THEN /\ RangeOffset < ResourceLen
                    /\ o.status = (IF resume_header = -1 THEN 200 ELSE 206)
                    /\ outcome' = o
                    /\ total' = (IF total = -1
                                 THEN (IF o.length THEN ResourceLen - RangeOffset ELSE 0)
                                 ELSE total)
                    /\ dfile' = Opened(IF args.allow_resume /\ args.resume_bytes > 0
                                       THEN "ab" ELSE "wb")
                    /\ body' = SubSeq(Resource, RangeOffset + 1, ResourceLen)
                    /\ dpc' = "stream"
                    /\ UNCHANGED <<args, attempt, original_retry_delay, depth, sleeps,
                                   only_retryable, retry_delay, ret>>
               ELSE /\ Fail(o)
                    /\ UNCHANGED <<total, body>>
    /\ UNCHANGED <<bytes_downloaded, resume_header, op, head, cancel_event,
                   interrupted, nops>>
    /\ UNCHANGED tvars

\* Lines 277-279 with the flag not looked at.
StreamChunkUnchecked ==
    /\ op = "stream_to_file"
    /\ dpc = "stream"
    /\ body # <<>>
    /\ dpc' = "write"
    /\ UNCHANGED <<retry_delay, bytes_downloaded, total, resume_header, dfile, op,
                   args, attempt, original_retry_delay, body, ret, head, outcome,
                   cancel_event, depth, gets, sleeps, only_retryable, interrupted,
                   nops, tvars>>

\* Lines 277-279 with the destination removed when the flag is found set.
StreamChunkRemoves ==
    /\ op = "stream_to_file"
    /\ dpc = "stream"
    /\ body # <<>>
    /\ IF cancel_event
       THEN Return("None") /\ dfile' = NoFile
       ELSE dpc' = "write" /\ UNCHANGED <<ret, dfile>>
    /\ UNCHANGED <<retry_delay, bytes_downloaded, total, resume_header, op,
                   args, attempt, original_retry_delay, body, head, outcome,
                   cancel_event, depth, gets, sleeps, only_retryable, interrupted,
                   nops, tvars>>

\* Lines 277-279: iter_content hands over the next chunk (Head(body)) and
\* the flag is read.
StreamChunk ==
    /\ op = "stream_to_file"
    /\ dpc = "stream"
    /\ body # <<>>
    /\ IF cancel_event
       THEN Return("None")
       ELSE dpc' = "write" /\ UNCHANGED ret
    /\ UNCHANGED <<retry_delay, bytes_downloaded, total, resume_header, dfile, op,
                   args, attempt, original_retry_delay, body, head, outcome,
                   cancel_event, depth, gets, sleeps, only_retryable, interrupted,
                   nops, tvars>>

\* Lines 280-286 with the chunk written but not counted.
StreamWriteUncounted ==
    /\ op = "stream_to_file"
    /\ dpc = "write"
    /\ dfile' = [dfile EXCEPT !.data = Append(@, Head(body))]
    /\ callbacks' = Append(callbacks, bytes_downloaded)
    /\ late_chunks' = late_chunks + (IF cancel_event THEN 1 ELSE 0)
    /\ body' = Tail(body)
    /\ dpc' = "stream"
    /\ UNCHANGED <<retry_delay, total, resume_header, op, args, attempt,
                   original_retry_delay, ret, head, outcome, cancel_event, depth, gets,
                   sleeps, only_retryable, interrupted, nops, overwrite,
                   bytes_downloaded>>

\* Lines 280-286: the chunk is written and counted, and the callback is
\* called with the counter.  The flag is not read again before this.
StreamWrite ==
    /\ op = "stream_to_file"
    /\ dpc = "write"
    /\ dfile' = [dfile EXCEPT !.data = Append(@, Head(body))]
    /\ bytes_downloaded' = bytes_downloaded + 1
    /\ callbacks' = Append(callbacks, bytes_downloaded')
    /\ late_chunks' = late_chunks + (IF cancel_event THEN 1 ELSE 0)
    /\ body' = Tail(body)
    /\ dpc' = "stream"
    /\ UNCHANGED <<retry_delay, total, resume_header, op, args, attempt,
                   original_retry_delay, ret, head, outcome, cancel_event, depth, gets,
                   sleeps, only_retryable, interrupted, nops, overwrite>>

\* iter_content raises before the body is complete: the connection dropped.
StreamDrop(o) ==
    /\ op = "stream_to_file"
    /\ dpc = "stream"
    /\ body # <<>>
    /\ Fail(o)
    /\ interrupted' = (interrupted \/ FileSize > 0)
    /\ UNCHANGED <<bytes_downloaded, total, resume_header, op, body, head,
                   cancel_event, gets, nops>>
    /\ UNCHANGED tvars

\* iter_content ends: the body is complete, or the server stopped sending
\* without an error.
StreamEnd ==
    /\ op = "stream_to_file"
    /\ dpc = "stream"
    /\ dpc' = "verify"
    /\ UNCHANGED <<retry_delay, bytes_downloaded, total, resume_header, dfile, op,
                   args, attempt, original_retry_delay, body, ret, head, outcome,
                   cancel_event, depth, gets, sleeps, only_retryable, interrupted, nops>>
    /\ UNCHANGED tvars

\* StreamVerify with the size comparison left out: a file that exists is
\* a success.
StreamVerifyUnchecked ==
    /\ op = "stream_to_file"
    /\ dpc = "verify"
    /\ Return(IF dfile.exists THEN "file_path" ELSE "None")
    /\ UNCHANGED <<dfile, sleeps, retry_delay, attempt, only_retryable>>
    /\ UNCHANGED <<bytes_downloaded, total, resume_header, op, args,
                   original_retry_delay, body, head, outcome, cancel_event, depth,
                   gets, interrupted, nops>>
    /\ UNCHANGED tvars

\* Lines 288-308: the size check.  A mismatch on the last attempt neither
\* continues nor returns: the loop runs out.
StreamVerify ==
    /\ op = "stream_to_file"
    /\ dpc = "verify"
    /\ IF ~dfile.exists
       THEN /\ Return("None")
            /\ UNCHANGED <<dfile, sleeps, retry_delay, attempt, only_retryable>>
       ELSE IF total > 0 /\ FileSize # total
       THEN /\ only_retryable' = FALSE
            /\ IF CanRetry(attempt)
               THEN /\ dfile' = NoFile
                    /\ SleepAndContinue
                    /\ UNCHANGED ret
               ELSE /\ attempt' = attempt + 1
                    /\ dpc' = "attempt"
                    /\ UNCHANGED <<dfile, sleeps, retry_delay, ret>>
       ELSE /\ Return("file_path")
            /\ UNCHANGED <<dfile, sleeps, retry_delay, attempt, only_retryable>>
    /\ UNCHANGED <<bytes_downloaded, total, resume_header, op, args,
                   original_retry_delay, body, head, outcome, cancel_event, depth,
                   gets, interrupted, nops>>
    /\ UNCHANGED tvars

\* The user cancels while an operation that polls the flag runs.
Cancel ==
    /\ op = "stream_to_file"
    /\ dpc \notin {"idle", "done"}
    /\ ~cancel_event
    /\ cancel_event' = TRUE
    /\ UNCHANGED <<retry_delay, bytes_downloaded, total, resume_header, dfile, op,
                   args, attempt, original_retry_delay, dpc, body, ret, head,
                   outcome, depth, gets, sleeps, only_retryable, interrupted, nops>>
    /\ UNCHANGED tvars

-----------------------------------------------------------------------------
(* Downloader.get_string and Downloader.get_bytes *)

\* Lines 138-142 and 162-166.
GetContent(limit, name) ==
    /\ CanStart(limit)
    /\ nops' = nops + 1
    /\ op' = name
    /\ attempt' = 0
    /\ gets' = 0
    /\ sleeps' = <<>>
    /\ only_retryable' = TRUE
    /\ outcome' = NoOutcome
    /\ head' = "none"
    /\ depth' = 0
    /\ interrupted' = FALSE
    /\ ret' = "none"
    /\ dpc' = "request"
    /\ args' = NoArgs
    /\ original_retry_delay' = RETRY_DELAY
    /\ body' = <<>>
    /\ cancel_event' = FALSE
    /\ overwrite' = "not asked"
    /\ callbacks' = <<>>
    /\ late_chunks' = 0
    /\ UNCHANGED <<retry_delay, bytes_downloaded, total, resume_header, dfile>>

\* time.sleep(self.retry_delay); self.retry_delay *= 2, then the next attempt
SleepAndContinueRequest ==
    /\ sleeps' = Append(sleeps, retry_delay)
    /\ retry_delay' = retry_delay * 2
    /\ attempt' = attempt + 1
    /\ dpc' = "request"

\* Lines 142-160 and 166-184: one attempt, or the end of the loop.  Every
\* failure is a RequestException and is handled alike.
GetRequest(o) ==
    /\ op \in {"get_string", "get_bytes"}
    /\ dpc = "request"
    /\ IF attempt >= Attempts
       THEN /\ Return("None")
            /\ UNCHANGED <<gets, outcome, sleeps, retry_delay, attempt, only_retryable>>
       ELSE
         /\ gets' = gets + 1
         /\ outcome' = o
         /\ IF o.kind = "ok"
            THEN /\ o.status = 200
                 /\ o.length
                 /\ Return("content")
                 /\ UNCHANGED <<sleeps, retry_delay, attempt, only_retryable>>
            ELSE /\ only_retryable' = (only_retryable /\ Retryable(o))
                 /\ IF CanRetry(attempt)
                    THEN /\ SleepAndContinueRequest
                         /\ UNCHANGED ret
                    ELSE /\ Return("None")
                         /\ UNCHANGED <<sleeps, retry_delay, attempt>>
    /\ UNCHANGED <<bytes_downloaded, total, resume_header, dfile, op, args,
                   original_retry_delay, body, head, cancel_event, depth,
                   interrupted, nops>>
    /\ UNCHANGED tvars

-----------------------------------------------------------------------------
(* MacRecovery.download_recovery_image and MacRecovery.download_image *)

\* The message of _check_cancellation's ProgramError.
CANCELLED == "Download cancelled by user"

\* The cleanup test of download_image with no message passing it.
SaysCancelledNever(msg) == FALSE

\* Line 238: "cancelled" in str(e).lower(), for the messages of the model.
SaysCancelled(msg) == msg = CANCELLED

\* Lines 40-48.
INFO_REQUIRED == {"AP", "AU", "AH", "AT", "CU", "CH", "CT"}

\* A cookie of a Set-Cookie header, as <<name, value>>; line 124 takes the
\* one that starts with "session=".
IsSessionCookie(cookie) == cookie[1] = "session"

\* Lines 120-127 with the first cookie taken whatever its name.
FindSessionAnyCookie(cookies) ==
    IF cookies = <<>> THEN NoCookie ELSE cookies[1]

\* Lines 120-127: the first cookie of the Set-Cookie header that starts with
\* "session=", or no cookie if the loop ends without one (cookies is the
\* header's value split at "; ", <<>> if the header is absent).
FindSession(cookies) ==
    LET found == SelectSeq(cookies, IsSessionCookie) IN
      IF found = <<>> THEN NoCookie ELSE found[1]

\* ParseInfo with the first line of a key kept and the later ones dropped.
ParseInfoFirstWins(lines) ==
    LET good == SelectSeq(lines, LAMBDA l : Len(l) = 2)
        keys == {good[i][1] : i \in 1..Len(good)}
        first(k) == CHOOSE i \in 1..Len(good) :
                      /\ good[i][1] = k
                      /\ \A j \in 1..(i - 1) : good[j][1] # k
    IN [k \in keys |-> good[first(k)][2]]

\* Lines 165-172: the response split into lines and each line at ": "; a
\* line that does not split into exactly two parts is skipped, and a later
\* line for a key replaces an earlier one.  lines is the response as a
\* sequence of lines, each the sequence of its parts.
ParseInfo(lines) ==
    LET good == SelectSeq(lines, LAMBDA l : Len(l) = 2)
        keys == {good[i][1] : i \in 1..Len(good)}
        last(k) == CHOOSE i \in 1..Len(good) :
                      /\ good[i][1] = k
                      /\ \A j \in (i + 1)..Len(good) : good[j][1] # k
    IN [k \in keys |-> good[last(k)][2]]

\* Line 175 with nothing required.
MissingKeysNone(mapping) == {}

\* Line 175: the required keys the mapping lacks.
MissingKeys(mapping) == INFO_REQUIRED \ DOMAIN mapping

\* Lines 288-289: every exception leaves download_recovery_image as a
\* ProgramError around its message.
RecoveryRaise(msg, where) ==
    /\ rresult' = <<"Failed to download recovery image", msg>>
    /\ raised_in' = where
    /\ rpc' = "done"

\* _run_query sends a request: what it was for, the cookie it carried, and
\* what came back (answered tells whether _run_query returned, data is the
\* part of the answer the caller reads).
Query(kind, cookie, answered, data) ==
    queries' = Append(queries, [call |-> rcalls, kind |-> kind, cookie |-> cookie,
                                answered |-> answered, data |-> data])

\* The dialog clears its flag and its worker calls download_recovery_image,
\* on the instance the dialog was constructed with.
DownloadRecoveryImage(limit) ==
    /\ rpc = "idle" \/ (rpc = "done" /\ handler # "none")
    /\ rcalls < limit
    /\ handler' = "none"
    /\ dpc = "idle"
    /\ recovery_cancel_event' = FALSE
    /\ rcalls' = rcalls + 1
    /\ rpc' = "get_image_info"
    /\ rbody' = <<>>
    /\ downloaded' = 0
    /\ total_size' = 0
    /\ rresult' = <<"none", "">>
    /\ raised_in' = "none"
    /\ progress' = <<>>
    /\ recovery_late_chunks' = 0
    /\ info' = NoInfo
    /\ UNCHANGED <<rfile, session, queries>>

\* Lines 135-137 without the call of get_session.
GetImageInfoNoSession ==
    /\ rpc = "get_image_info"
    /\ IF recovery_cancel_event
       THEN RecoveryRaise(CANCELLED, "get_image_info")
       ELSE /\ rpc' = "image_info"
            /\ UNCHANGED <<rresult, raised_in>>
    /\ UNCHANGED <<rfile, rbody, downloaded, total_size, recovery_cancel_event,
                   progress, recovery_late_chunks, session, queries, info, rcalls, handler>>

\* Lines 135-137 with get_session called whether or not there is a session.
GetImageInfoNewSession ==
    /\ rpc = "get_image_info"
    /\ IF recovery_cancel_event
       THEN RecoveryRaise(CANCELLED, "get_image_info")
       ELSE /\ rpc' = "get_session"
            /\ UNCHANGED <<rresult, raised_in>>
    /\ UNCHANGED <<rfile, rbody, downloaded, total_size, recovery_cancel_event,
                   progress, recovery_late_chunks, session, queries, info, rcalls, handler>>

\* get_image_info, lines 135-137: the flag is read, and get_session is
\* called if the instance has no session.
GetImageInfo ==
    /\ rpc = "get_image_info"
    /\ IF recovery_cancel_event
       THEN RecoveryRaise(CANCELLED, "get_image_info")
       ELSE /\ rpc' = (IF session = NoCookie THEN "get_session" ELSE "image_info")
            /\ UNCHANGED <<rresult, raised_in>>
    /\ UNCHANGED <<rfile, rbody, downloaded, total_size, recovery_cancel_event,
                   progress, recovery_late_chunks, session, queries, info, rcalls, handler>>

\* get_session, lines 107-129: the flag is read, the server is asked, and
\* the session cookie is looked for in the answer.  answered tells whether
\* _run_query returns; cookies is the Set-Cookie header of its answer.
GetSession(answered, cookies) ==
    /\ rpc = "get_session"
    /\ IF recovery_cancel_event
       THEN /\ RecoveryRaise(CANCELLED, "get_session")
            /\ UNCHANGED <<session, queries>>
       ELSE /\ Query("session", NoCookie, answered, cookies)
            /\ IF ~answered
               THEN /\ RecoveryRaise("Network error", "get_session")
                    /\ UNCHANGED session
               ELSE IF FindSession(cookies) = NoCookie
               THEN /\ RecoveryRaise("No session found in server response",
                                     "get_session")
                    /\ UNCHANGED session
               ELSE /\ session' = FindSession(cookies)
                    /\ rpc' = "image_info"
                    /\ UNCHANGED <<rresult, raised_in>>
    /\ UNCHANGED <<rfile, rbody, downloaded, total_size, recovery_cancel_event,
                   progress, recovery_late_chunks, info, rcalls, handler>>

\* get_image_info, lines 139-182: the POST with the session cookie, the
\* parse of its answer, the test for the required keys.
ImageInfo(answered, lines) ==
    /\ rpc = "image_info"
    /\ Query("image-info", session, answered, lines)
    /\ IF ~answered
       THEN /\ RecoveryRaise("Network error", "get_image_info")
            /\ UNCHANGED info
       ELSE /\ info' = ParseInfo(lines)
            /\ IF MissingKeys(ParseInfo(lines)) # {}
               THEN RecoveryRaise("Missing required keys in server response",
                                  "get_image_info")
               ELSE /\ rpc' = "download_image"
                    /\ UNCHANGED <<rresult, raised_in>>
    /\ UNCHANGED <<rfile, rbody, downloaded, total_size, recovery_cancel_event,
                   progress, recovery_late_chunks, session, rcalls, handler>>

\* Lines 266-267 and download_image, lines 189-224: the link and the token
\* are taken from the mapping (a KeyError if one is not there), the image
\* is requested, the size is taken from Content-Length (length tells
\* whether the header is there), the destination is opened with "wb".
DownloadImage(answered, length) ==
    /\ rpc = "download_image"
    /\ IF ~({"AU", "AT"} \subseteq DOMAIN info)
       THEN /\ RecoveryRaise("KeyError", "download_recovery_image")
            /\ UNCHANGED <<total_size, rbody, downloaded, rfile, queries>>
       ELSE /\ Query("image", <<"AssetToken", info["AT"]>>, answered, <<>>)
            /\ IF answered
               THEN /\ total_size' = (IF length THEN ResourceLen ELSE 0)
                    /\ rbody' = Resource
                    /\ downloaded' = 0
                    /\ rfile' = [exists |-> TRUE, data |-> <<>>]
                    /\ rpc' = "check"
                    /\ UNCHANGED <<rresult, raised_in>>
               ELSE /\ RecoveryRaise("Network error", "_run_query")
                    /\ UNCHANGED <<total_size, rbody, downloaded, rfile>>
    /\ UNCHANGED <<recovery_cancel_event, progress, recovery_late_chunks, session,
                   info, rcalls, handler>>

\* Lines 225-227 and 236-244: the flag is read before each read; the
\* ProgramError leaves the with block, which closes the file, and the
\* except clause removes the file if the message says cancelled.
ImageCheck ==
    /\ rpc = "check"
    /\ IF recovery_cancel_event
       THEN /\ rfile' = (IF SaysCancelled(CANCELLED) THEN NoFile ELSE rfile)
            /\ RecoveryRaise(CANCELLED, "_check_cancellation")
       ELSE /\ rpc' = "read"
            /\ UNCHANGED <<rfile, rresult, raised_in>>
    /\ UNCHANGED <<rbody, downloaded, total_size, recovery_cancel_event, progress,
                   recovery_late_chunks, session, queries, info, rcalls, handler>>

\* Lines 229-235: a chunk is read, written and counted, and the progress is
\* reported if the size is known.
ImageReadChunk ==
    /\ rpc = "read"
    /\ rbody # <<>>
    /\ rfile' = [rfile EXCEPT !.data = Append(@, Head(rbody))]
    /\ rbody' = Tail(rbody)
    /\ downloaded' = downloaded + 1
    /\ progress' = (IF total_size > 0 THEN Append(progress, downloaded') ELSE progress)
    /\ recovery_late_chunks' =
           recovery_late_chunks + (IF recovery_cancel_event THEN 1 ELSE 0)
    /\ rpc' = "check"
    /\ UNCHANGED <<total_size, rresult, raised_in, recovery_cancel_event, session,
                   queries, info, rcalls, handler>>

\* Lines 230-231 and 246-247, then lines 276-286: read returns nothing (the
\* body is complete, or the server stopped sending) and the path is returned.
ImageReadEnd ==
    /\ rpc = "read"
    /\ rresult' = <<"filepath", "">>
    /\ rpc' = "done"
    /\ UNCHANGED <<rfile, rbody, downloaded, total_size, raised_in,
                   recovery_cancel_event, progress, recovery_late_chunks, session,
                   queries, info, rcalls, handler>>

\* ImageReadFails with the partial file removed on every failure.
ImageReadFailsRemoves ==
    /\ rpc = "read"
    /\ rbody # <<>>
    /\ RecoveryRaise("read failed", "read")
    /\ rfile' = NoFile
    /\ UNCHANGED <<rbody, downloaded, total_size, recovery_cancel_event,
                   progress, recovery_late_chunks, session, queries, info, rcalls, handler>>

\* Line 229: read raises; the exception is no ProgramError, passes the
\* except clause of line 236 and leaves the file as it is.
ImageReadFails ==
    /\ rpc = "read"
    /\ rbody # <<>>
    /\ RecoveryRaise("read failed", "read")
    /\ UNCHANGED <<rfile, rbody, downloaded, total_size, recovery_cancel_event,
                   progress, recovery_late_chunks, session, queries, info, rcalls, handler>>

\* Handler with every exception reported as an error.
HandlerErrorOnly(res) ==
    IF res[1] = "filepath" THEN "_download_complete" ELSE "_download_error"

\* _download_worker, lines 282-295 of the dialog: the handler it schedules
\* for what download_recovery_image returned or raised (res is the result
\* or <<wrapper, message>> of the ProgramError); line 292 looks for
\* "cancelled" in the exception's text.
Handler(res) ==
    IF res[1] = "filepath" THEN "_download_complete"
    ELSE IF SaysCancelled(res[2]) THEN "_download_cancelled"
    ELSE "_download_error"

\* The end of _download_worker: download_recovery_image has returned or
\* raised, and the handler is scheduled on the window (a widget stays
\* truthy, and after() goes to the interpreter, when the dialog was closed).
DownloadWorkerEnd ==
    /\ rpc = "done"
    /\ handler = "none"
    /\ handler' = Handler(rresult)
    /\ UNCHANGED <<rpc, rfile, rbody, downloaded, total_size, rresult, raised_in,
                   recovery_cancel_event, progress, recovery_late_chunks, session,
                   info, queries, rcalls>>

\* The user cancels, or closes the dialog, while the worker runs.
CancelRecovery ==
    /\ rpc \notin {"idle", "done"}
    /\ ~recovery_cancel_event
    /\ recovery_cancel_event' = TRUE
    /\ UNCHANGED <<rpc, rfile, rbody, downloaded, total_size, rresult, raised_in,
                   progress, recovery_late_chunks, session, queries, info, rcalls, handler>>

\* The complete answer to the image-info request.
FullInfo ==
    << <<"AP", "p">>, <<"AU", "u">>, <<"AH", "h">>, <<"AT", "t">>,
       <<"CU", "cu">>, <<"CH", "ch">>, <<"CT", "ct">> >>

\* lines without its i-th line.
Without(lines, i) == SubSeq(lines, 1, i - 1) \o SubSeq(lines, i + 1, Len(lines))

\* The answers of the model: complete, with one more key, with one line
\* missing, with a line that has no value or two ": ", empty, and a complete
\* answer with lines that do not split in two among the well-formed ones: AU
\* first without a value and given again at the end, AT given twice and
\* then once more with two ": ", and an empty line.
InfoAnswers ==
    {FullInfo, Append(FullInfo, <<"XX", "x">>), <<>>}
    \cup {Without(FullInfo, i) : i \in 1..Len(FullInfo)}
    \cup {[FullInfo EXCEPT ![2] = <<"AU">>],
          [FullInfo EXCEPT ![2] = <<"AU", "http", "//u">>]}
    \cup {[FullInfo EXCEPT ![2] = <<"AU">>]
            \o << <<"">>, <<"AT", "t2">>, <<"AT", "t3", "x">>, <<"AU", "u2">> >>}

\* The Set-Cookie headers of the model: absent, without a session cookie,
\* with it first, with it after another cookie.
CookieAnswers ==
    { <<>>, << <<"path", "/">> >>, << <<"session", "s1">>, <<"path", "/">> >>,
      << <<"lang", "en">>, <<"session", "s2">> >>,
      << <<"sessionid", "x">> >> }

-----------------------------------------------------------------------------
(* The manifests and files the verifier is run on *)

\* A header all of whose fields are as verify_chunklist requires.
GoodHeader(signature_method, chunk_count) ==
    [ magic            |-> "CNKL",
      header_size      |-> HEADER_SIZE,
      file_version     |-> 1,
      chunk_method     |-> 1,
      signature_method |-> signature_method,
      chunk_count      |-> chunk_count,
      chunk_offset     |-> 36,
      signature_offset |-> 36 + CHUNK_SIZE * chunk_count ]

\* The headers with one field wrong.
BadHeaders(h) ==
    { [h EXCEPT !.magic = "XXXX"],
      [h EXCEPT !.header_size = 0],
      [h EXCEPT !.file_version = 2],
      [h EXCEPT !.chunk_method = 2],
      [h EXCEPT !.signature_method = 3],
      [h EXCEPT !.chunk_count = 0, !.signature_offset = 36],
      [h EXCEPT !.chunk_offset = 0],
      [h EXCEPT !.signature_offset = @ + 1] }

\* Units that follow the header in a manifest with this header and neither a
\* unit missing nor one left over.
BodyLen(hdr) ==
    CHUNK_UNITS * hdr.chunk_count
      + (IF hdr.signature_method = 2 THEN HASH_UNITS ELSE SIG_UNITS)

\* Manifests: every well-formed header with every body up to the expected
\* length (the chunk table or the signature cut anywhere) or one unit longer;
\* every header with one field wrong; a header cut short; no manifest at all.
Chunklists ==
    LET good == {GoodHeader(m, c) : m \in {1, 2}, c \in 1..MaxChunks} IN
      UNION { { [exists |-> TRUE, short |-> FALSE, hdr |-> h, body |-> b] :
                  b \in SeqsBetween(Unit, 0, BodyLen(h) + 1) } :
              h \in good }
      \cup
      UNION { { [exists |-> TRUE, short |-> FALSE, hdr |-> h, body |-> b] :
                  h \in BadHeaders(g), b \in SeqsBetween(Unit, BodyLen(g), BodyLen(g)) } :
              g \in good }
      \cup
      { [exists |-> e, short |-> TRUE, hdr |-> GoodHeader(1, 1), body |-> <<>>] :
            e \in BOOLEAN }

Files ==
    { [exists |-> TRUE, data |-> d] : d \in SeqsBetween(Unit, 0, MaxFileLen) }
      \cup {[exists |-> FALSE, data |-> <<>>]}

InitVerify ==
    /\ caller \in {"verify_file_against_chunklist", "verify_chunklist"}
    /\ chunklist \in Chunklists
    /\ file \in (IF caller = "verify_chunklist"
                 THEN {[exists |-> FALSE, data |-> <<>>]} ELSE Files)
    /\ vpc = "start"
    /\ gpc = "start"
    /\ gerr = "none"
    /\ mpos = 0
    /\ yielded = 0
    /\ hash_ctx = 0
    /\ fpos = 0
    /\ fopen = FALSE
    /\ chunk = <<0, 0>>
    /\ result = "none"
    /\ Constructed
    /\ dfile = NoFile
    /\ RecoveryIdle
    /\ BatchIdle
    /\ GuiIdle

NextVerify ==
    \/ VerifyChunklistOpen
    \/ VerifyChunklistChunk
    \/ VerifyChunklistSignature
    \/ VerifyChunklistTrailing
    \/ VerifyFileStart
    \/ VerifyFileBody
    \/ VerifyFileAfterLoop
    \/ VerifyFileExcept
    \/ IterateStart
    \/ IterateBody
    \/ IterateEnd

SpecVerify == InitVerify /\ [][NextVerify]_vars

-----------------------------------------------------------------------------
(* GibMacOSBackend.download_prod *)

\* What can be at a file's destination when download_prod reaches it:
\* nothing, or the first bytes of the resource.
Destinations ==
    {NoFile} \cup {[exists |-> TRUE, data |-> Prefix(n)] : n \in 0..ResourceLen}

\* CancelledError derives from ProgramError, which derives from Exception:
\* "except Exception" catches all three.
IsException(e) == e \in {"Exception", "ProgramError", "CancelledError"}

\* Lines 610-618: what the try block raises once stream_to_file has
\* returned value.
RaisedInTry(value, flag) ==
    IF value # "None" THEN "none"
    ELSE IF flag THEN "CancelledError" ELSE "Exception"

\* Lines 620-622 with the failed file forgotten.
FailedAfterForgotten(failed, pos, e) == failed

\* Lines 620-622: the handler of the try block adds the file to the list.
FailedAfter(failed, pos, e) ==
    IF e # "none" /\ IsException(e) THEN Append(failed, pos) ELSE failed

\* download_task clears the flag and calls download_prod, which refuses an
\* empty list (lines 575-576) and starts its loop otherwise.
DownloadProd(n) ==
    /\ bpc = "idle"
    /\ dpc = "idle"
    /\ rpc = "idle"
    /\ cancel_event' = FALSE
    /\ dl_list' = n
    /\ failed_downloads' = <<>>
    /\ attempted' = <<>>
    /\ returned' = <<>>
    /\ cancelled_outside' = FALSE
    /\ IF n = 0
       THEN /\ raised' = "ProgramError: no files to download"
            /\ bpc' = "done"
            /\ position' = 0
       ELSE /\ raised' = "none"
            /\ bpc' = "loop"
            /\ position' = 1
    /\ UNCHANGED <<retry_delay, bytes_downloaded, total, resume_header, dfile, op,
                   args, attempt, original_retry_delay, dpc, body, ret, head,
                   outcome, depth, gets, sleeps, only_retryable, interrupted, nops>>
    /\ UNCHANGED tvars

\* The head of the loop, lines 584-609, and what follows the loop, lines
\* 635-649.
BatchLoop ==
    /\ bpc = "loop"
    /\ IF position > dl_list
       THEN /\ raised' = (IF failed_downloads # <<>>
                          THEN "ProgramError: files failed to download"
                          ELSE "none")
            /\ bpc' = "done"
            /\ UNCHANGED <<dvars, tvars, attempted>>
       ELSE IF cancel_event
       THEN /\ raised' = "CancelledError"
            /\ bpc' = "done"
            /\ UNCHANGED <<dvars, tvars, attempted>>
       ELSE /\ attempted' = Append(attempted, position)
            /\ bpc' = "streaming"
            /\ StreamToFileCall(IF dfile.exists THEN FileSize ELSE 0, -1, TRUE,
                                "None", FALSE)
            /\ nops' = nops + 1
            /\ UNCHANGED <<cancel_event, raised>>
    /\ UNCHANGED <<position, failed_downloads, dl_list, returned, cancelled_outside>>

\* Lines 610-633: stream_to_file has returned; the next file has its own
\* destination.
BatchResult ==
    /\ bpc = "streaming"
    /\ dpc = "done"
    /\ returned' = Append(returned, <<ret, cancel_event>>)
    /\ failed_downloads' =
           FailedAfter(failed_downloads, position, RaisedInTry(ret, cancel_event))
    /\ position' = position + 1
    /\ bpc' = "loop"
    /\ IF position < dl_list
       THEN dfile' \in Destinations
       ELSE dfile' = dfile
    /\ UNCHANGED <<retry_delay, bytes_downloaded, total, resume_header, op,
                   args, attempt, original_retry_delay, dpc, body, ret, head,
                   outcome, cancel_event, depth, gets, sleeps, only_retryable,
                   interrupted, nops>>
    /\ UNCHANGED <<tvars, attempted, raised, dl_list, cancelled_outside>>

\* The user cancels while download_prod is between two calls of
\* stream_to_file or between a call's return and the test of line 611.
BatchCancel ==
    /\ bpc \in {"loop", "streaming"}
    /\ dpc \in {"idle", "done"}
    /\ ~cancel_event
    /\ cancel_event' = TRUE
    /\ cancelled_outside' = TRUE
    /\ UNCHANGED <<retry_delay, bytes_downloaded, total, resume_header, dfile, op,
                   args, attempt, original_retry_delay, dpc, body, ret, head,
                   outcome, depth, gets, sleeps, only_retryable, interrupted, nops>>
    /\ UNCHANGED <<tvars, bpc, position, failed_downloads, attempted, raised,
                   dl_list, returned>>

-----------------------------------------------------------------------------
(* The downloader's runs *)

\* No verification is in progress.
VerifyIdle ==
    /\ caller = "none"
    /\ chunklist = [exists |-> FALSE, short |-> TRUE, hdr |-> GoodHeader(1, 1),
                    body |-> <<>>]
    /\ file = [exists |-> FALSE, data |-> <<>>]
    /\ vpc = "start"
    /\ gpc = "start"
    /\ gerr = "none"
    /\ mpos = 0
    /\ yielded = 0
    /\ hash_ctx = 0
    /\ fpos = 0
    /\ fopen = FALSE
    /\ chunk = <<0, 0>>
    /\ result = "none"

\* A fresh Downloader; the destination is absent or holds the first bytes of
\* the resource, left by an earlier run that was interrupted.
InitDownload ==
    /\ VerifyIdle
    /\ RecoveryIdle
    /\ BatchIdle
    /\ GuiIdle
    /\ Constructed
    /\ dfile \in {NoFile} \cup {[exists |-> TRUE, data |-> Prefix(n)] : n \in 0..ResourceLen}

\* The steps of stream_to_file once it has been called.
StreamSteps ==
    \/ StreamAttempt /\ UNCHANGED nondownloader
    \/ \E h \in {"ok", "no length", "failed"} : StreamHead(h) /\ UNCHANGED nondownloader
    \/ \E o \in GetErrors \cup {Ok(st, l) : st \in {200, 206}, l \in BOOLEAN} :
            StreamGet(o) /\ UNCHANGED nondownloader
    \/ StreamChunk /\ UNCHANGED nondownloader
    \/ StreamWrite /\ UNCHANGED nondownloader
    \/ \E o \in StreamErrors : StreamDrop(o) /\ UNCHANGED nondownloader
    \/ StreamEnd /\ UNCHANGED nondownloader
    \/ StreamVerify /\ UNCHANGED nondownloader
    \/ Cancel /\ UNCHANGED nondownloader

\* The steps of the operations, for runs of at most limit operations.
Operate(limit) ==
    \/ \E resume_bytes \in {0, FileSize}, total_bytes \in {-1, ResourceLen},
          allow_resume \in BOOLEAN, parent_window \in {"None", "window"},
          answer \in BOOLEAN :
            /\ StreamToFile(limit, resume_bytes, total_bytes, allow_resume,
                            parent_window, answer)
            /\ UNCHANGED nondownloader
    \/ StreamSteps
    \/ \E name \in {"get_string", "get_bytes"} :
            GetContent(limit, name) /\ UNCHANGED nondownloader
    \/ \E o \in GetErrors \cup {Ok(200, TRUE)} : GetRequest(o) /\ UNCHANGED nondownloader

\* One operation on a fresh Downloader.
NextDownload == Operate(1)

SpecDownload == InitDownload /\ [][NextDownload]_vars

\* What MacRecovery leaves alone.
nonrecovery == <<vvars, dvars, tvars, bvars, gvars>>

\* The steps of the recovery image downloads, for runs of at most limit
\* calls on one instance.
Recover(limit) ==
    \/ DownloadRecoveryImage(limit) /\ UNCHANGED nonrecovery
    \/ GetImageInfo /\ UNCHANGED nonrecovery
    \/ \E answered \in BOOLEAN, cookies \in CookieAnswers :
            GetSession(answered, cookies) /\ UNCHANGED nonrecovery
    \/ \E answered \in BOOLEAN, lines \in InfoAnswers :
            ImageInfo(answered, lines) /\ UNCHANGED nonrecovery
    \/ \E answered \in BOOLEAN, length \in BOOLEAN :
            DownloadImage(answered, length) /\ UNCHANGED nonrecovery
    \/ ImageCheck /\ UNCHANGED nonrecovery
    \/ ImageReadChunk /\ UNCHANGED nonrecovery
    \/ ImageReadEnd /\ UNCHANGED nonrecovery
    \/ ImageReadFails /\ UNCHANGED nonrecovery
    \/ DownloadWorkerEnd /\ UNCHANGED nonrecovery
    \/ CancelRecovery /\ UNCHANGED nonrecovery

\* A file an earlier download left at the image's destination.
StaleImage == [exists |-> TRUE, data |-> <<0>>]

\* A fresh Downloader and a fresh MacRecovery, the destinations absent or
\* one of them left by an earlier run.
InitStreams ==
    /\ VerifyIdle
    /\ BatchIdle
    /\ GuiIdle
    /\ Constructed
    /\ dfile \in {NoFile} \cup {[exists |-> TRUE, data |-> Prefix(n)] : n \in 0..ResourceLen}
    /\ RecoveryNotStarted
    /\ rfile \in {NoFile, StaleImage}
    /\ dfile = NoFile \/ rfile = NoFile

\* One transfer: an operation of the Downloader or a recovery image download.
NextStreams ==
    \/ Operate(1)
    \/ Recover(1)

SpecStreams == InitStreams /\ [][NextStreams]_vars

\* A fresh MacRecovery, its destination absent or left by an earlier run.
InitRecovery ==
    /\ VerifyIdle
    /\ BatchIdle
    /\ GuiIdle
    /\ Constructed
    /\ dfile = NoFile
    /\ RecoveryNotStarted
    /\ rfile \in {NoFile, StaleImage}

\* Up to MaxCalls recovery image downloads on one MacRecovery instance.
NextRecovery == Recover(MaxCalls)

SpecRecovery == InitRecovery /\ [][NextRecovery]_vars

\* Up to MaxOps operations, one after the other, on one Downloader.
NextSequence == Operate(MaxOps)

\* A fresh Downloader and no destination file yet: what the later
\* operations find is what the earlier ones left.
InitSequence ==
    /\ VerifyIdle
    /\ Constructed
    /\ dfile = NoFile
    /\ RecoveryIdle
    /\ BatchIdle
    /\ GuiIdle

SpecSequence == InitSequence /\ [][NextSequence]_vars

\* What download_prod leaves alone outside the Downloader.
nonbatch == <<vvars, rvars, gvars>>

\* A fresh Downloader and the first file's destination.
InitBatch ==
    /\ VerifyIdle
    /\ RecoveryIdle
    /\ BatchIdle
    /\ GuiIdle
    /\ Constructed
    /\ dfile \in Destinations

\* One call of download_prod for a product of up to BatchLen files.
NextBatch ==
    \/ \E n \in 0..BatchLen : DownloadProd(n) /\ UNCHANGED nonbatch
    \/ BatchLoop /\ UNCHANGED nonbatch
    \/ BatchResult /\ UNCHANGED nonbatch
    \/ BatchCancel /\ UNCHANGED nonbatch
    \/ StreamSteps

SpecBatch == InitBatch /\ [][NextBatch]_vars

-----------------------------------------------------------------------------
(* What a manifest describes, stated on the manifest and the file themselves *)

\* The header is acceptable and the units after it are exactly the chunk
\* table and the signature region.
WellFormed(cl) ==
    /\ cl.exists
    /\ ~cl.short
    /\ HeaderError(cl.hdr) = "none"
    /\ Len(cl.body) = BodyLen(cl.hdr)

\* The chunk table holds all the records the header declares.
TableComplete(cl) ==
    /\ cl.exists
    /\ ~cl.short
    /\ HeaderError(cl.hdr) = "none"
    /\ Len(cl.body) >= CHUNK_UNITS * cl.hdr.chunk_count

\* The (size, digest) records of the chunk table, in order.
ChunkRecords(cl) ==
    [i \in 1..cl.hdr.chunk_count |->
        <<cl.body[CHUNK_UNITS * (i - 1) + 1], cl.body[CHUNK_UNITS * (i - 1) + 2]>>]

\* The digest that was signed: over the header and the chunk table as stored.
SignedDigest(cl) ==
    Sha256(HeaderWire(cl.hdr) \o SubSeq(cl.body, 1, CHUNK_UNITS * cl.hdr.chunk_count))

\* The units after the chunk table.
SignatureRegion(cl) ==
    SubSeq(cl.body, CHUNK_UNITS * cl.hdr.chunk_count + 1, Len(cl.body))

\* The units a method-2 manifest stores as its bare hash.
BareHash(cl) == Read(cl.body, CHUNK_UNITS * cl.hdr.chunk_count, HASH_UNITS)

\* The signature region is a method-1 signature of the signed digest.
ValidSignature(cl) ==
    /\ cl.hdr.signature_method = 1
    /\ Len(SignatureRegion(cl)) = SIG_UNITS
    /\ Pow(FromBytesLittle(SignatureRegion(cl)), PUBLIC_EXPONENT,
           APPLE_EFI_ROM_PUBLIC_KEY_1) = Plaintext(SignedDigest(cl))

\* The sum of the declared chunk sizes.
RECURSIVE TotalSize(_)
TotalSize(records) ==
    IF records = <<>> THEN 0 ELSE Head(records)[1] + TotalSize(Tail(records))

\* data is the concatenation of chunks of the declared sizes and digests,
\* with no unit missing and none left over.
RECURSIVE IsExactly(_, _)
IsExactly(records, data) ==
    IF records = <<>> THEN data = <<>>
    ELSE LET size == Head(records)[1] IN
           /\ Len(data) >= size
           /\ Sha256(SubSeq(data, 1, size)) = Head(records)[2]
           /\ IsExactly(Tail(records), SubSeq(data, size + 1, Len(data)))

\* data begins with chunks of the declared sizes and digests.
RECURSIVE StartsWith(_, _)
StartsWith(records, data) ==
    IF records = <<>> THEN TRUE
    ELSE LET size == Head(records)[1] IN
           /\ Len(data) >= size
           /\ Sha256(SubSeq(data, 1, size)) = Head(records)[2]
           /\ StartsWith(Tail(records), SubSeq(data, size + 1, Len(data)))

\* verify_file_against_chunklist has returned or raised.
VerifyFileDone == caller = "verify_file_against_chunklist" /\ vpc = "done"

-----------------------------------------------------------------------------
(* Claims about FileVerification *)

\* C1: for a structurally valid method-1 manifest with a valid signature,
\* verify_file_against_chunklist returns True when the file is exactly the
\* concatenation of the chunks the manifest describes.  (Stated for the
\* manifests all of whose chunks are non-empty, the ones a real image has.)
C1_ExactFileVerifies ==
    ( /\ VerifyFileDone
      /\ file.exists
      /\ WellFormed(chunklist)
      /\ ValidSignature(chunklist)
      /\ \A i \in 1..chunklist.hdr.chunk_count : ChunkRecords(chunklist)[i][1] > 0
      /\ IsExactly(ChunkRecords(chunklist), file.data) )
    => result = "True"

\* C2: verify_file_against_chunklist never returns True unless every chunk of
\* the manifest, in order, matches the next chunk_size units of the file and
\* nothing is left after the last chunk; a file shorter or longer than the
\* sum of the chunk sizes yields False.
C2_TrueOnlyIfExact ==
    /\ result = "True" =>
         /\ TableComplete(chunklist)
         /\ IsExactly(ChunkRecords(chunklist), file.data)
    /\ ( /\ VerifyFileDone
         /\ file.exists
         /\ TableComplete(chunklist)
         /\ Len(file.data) # TotalSize(ChunkRecords(chunklist)) )
       => result = "False"

\* C2's case: a valid manifest, every chunk matching, units left over in the
\* file, and the leftover check has answered False.
C2_Witness ==
    /\ VerifyFileDone
    /\ WellFormed(chunklist)
    /\ ValidSignature(chunklist)
    /\ StartsWith(ChunkRecords(chunklist), file.data)
    /\ Len(file.data) > TotalSize(ChunkRecords(chunklist))
    /\ gpc = "done"
    /\ result = "False"

\* C3: a manifest whose signature method is 2 never verifies: the generator
\* never ends normally; once the chunk table is read it ends with the hash
\* mismatch error, or with the missing-signature error exactly when the bare
\* hash matches; verify_file_against_chunklist returns False.
C3_Method2AlwaysFails ==
    ( /\ chunklist.exists
      /\ ~chunklist.short
      /\ chunklist.hdr.signature_method = 2 )
    =>
    /\ gpc \notin {"trailing", "done"}
    /\ (gpc = "raised" /\ TableComplete(chunklist)) =>
         /\ gerr \in { "Invalid chunklist: hash verification failed",
                       "Chunklist missing digital signature" }
         /\ gerr = "Chunklist missing digital signature"
              <=> BareHash(chunklist) = <<SignedDigest(chunklist)>>
    /\ (caller = "verify_chunklist" /\ vpc = "done") =>
         result \in {"ValueError", "RuntimeError"}
    /\ (VerifyFileDone /\ file.exists) => result = "False"

\* C3's case: method 2, the bare hash and every chunk of the file correct,
\* and the verification has failed with the missing-signature error.
C3_Witness ==
    /\ VerifyFileDone
    /\ WellFormed(chunklist)
    /\ chunklist.hdr.signature_method = 2
    /\ SignatureRegion(chunklist) = <<SignedDigest(chunklist)>>
    /\ IsExactly(ChunkRecords(chunklist), file.data)
    /\ gerr = "Chunklist missing digital signature"
    /\ result = "False"

\* C4: the for loop of verify_file_against_chunklist ends normally (the only
\* way to the return True) only with the generator exhausted, which is after
\* the signature check and the trailing-units check have passed; a method-1
\* manifest whose signature does not verify yields False even when every
\* chunk of the file matches.
C4_SignatureCheckedBeforeSuccess ==
    /\ ( /\ caller = "verify_file_against_chunklist"
         /\ \/ vpc = "next" /\ gpc = "done"
            \/ result = "True" )
       =>
         /\ gpc = "done"
         /\ yielded = chunklist.hdr.chunk_count
         /\ WellFormed(chunklist)
         /\ ValidSignature(chunklist)
    /\ ( /\ VerifyFileDone
         /\ file.exists
         /\ WellFormed(chunklist)
         /\ chunklist.hdr.signature_method = 1
         /\ ~ValidSignature(chunklist) )
       => result = "False"

\* C4's case: a method-1 manifest with a signature that does not verify,
\* every chunk of the file matching, and False returned.
C4_Witness ==
    /\ VerifyFileDone
    /\ WellFormed(chunklist)
    /\ chunklist.hdr.signature_method = 1
    /\ ~ValidSignature(chunklist)
    /\ IsExactly(ChunkRecords(chunklist), file.data)
    /\ gerr = "Invalid chunklist: signature verification failed"
    /\ result = "False"

-----------------------------------------------------------------------------
(* Claims about Downloader *)

\* stream_to_file has returned.
StreamDone == op = "stream_to_file" /\ dpc = "done"

\* The last attempt's transport did all it was asked: the HEAD request, if
\* one was made, told the size; the GET response told its length; the
\* stream delivered the whole body.
TransportSucceeded ==
    /\ head \in {"none", "ok"}
    /\ outcome.kind = "ok"
    /\ outcome.length
    /\ body = <<>>

\* Each delay is twice the one before it.
Doubling(delays) ==
    \A i \in 1..(Len(delays) - 1) : delays[i + 1] = 2 * delays[i]

\* C5: whenever a transfer that was interrupted after K bytes (a drop in
\* mid-stream retried by the same call, or an earlier call whose partial
\* file is resumed) returns success, the destination file is identical to
\* the resource.  (Stated for the calls whose last attempt was served
\* completely and with honest lengths.)
C5_ResumedFileIdentical ==
    ( /\ StreamDone
      /\ ret = "file_path"
      /\ interrupted
      /\ outcome.kind = "ok"
      /\ outcome.length
      /\ body = <<>>
      /\ head # "no length" )
    => dfile.data = Resource

\* C6: each retry of stream_to_file after a retryable failure resumes from
\* the current length of the destination file: the Range offset and the
\* byte counter at the start of the retry equal the bytes already in the file.
\* (Stated for calls made as download_prod makes them, without a window, so
\* that every byte in the file was put there by the transfer.)
C6_RetryResumesFromFileLength ==
    ( /\ op = "stream_to_file"
      /\ dpc \in {"head", "get"}
      /\ attempt > 0
      /\ args.allow_resume
      /\ args.parent_window = "None"
      /\ Retryable(outcome) )
    => /\ RangeOffset = FileSize
       /\ bytes_downloaded = FileSize

\* C7: when the first M attempts (M < max attempts) failed retryably and the
\* transport then succeeds, stream_to_file returns the file path after
\* exactly M+1 GET requests, having slept M delays, each twice the previous.
C7_SucceedsAfterMFailures ==
    [][ ( /\ op = "stream_to_file"
          /\ dpc = "verify"
          /\ dpc' # "verify"
          /\ depth = 0
          /\ only_retryable
          /\ TransportSucceeded )
        => /\ ret' = "file_path"
           /\ gets = attempt + 1
           /\ Len(sleeps) = attempt
           /\ Doubling(sleeps) ]_vars

\* Every request of the operation so far has failed retryably.
EveryAttemptFailed ==
    /\ op \in {"stream_to_file", "get_string", "get_bytes"}
    /\ gets > 0
    /\ only_retryable
    /\ Retryable(outcome)

C9_DelayIsSeedAtStart ==
    ( /\ dpc \in {"attempt", "request"}
      /\ attempt = 0
      /\ depth = 0 )
    => retry_delay = RETRY_DELAY

\* A status that is neither retried nor answered by the restart.
Terminal4xx(status) ==
    /\ status \in 400..499
    /\ status # 429
    /\ ~(status = 416 /\ args.allow_resume /\ args.resume_bytes > 0)

\* C10: in stream_to_file a 404, a 403 or any other 4xx except 429 and the
\* resumed 416 is terminal: the GET that meets it is the last step of the
\* call, which returns null without a sleep and without another attempt,
\* whatever attempts remain.
C10_Terminal4xxAborts ==
    [][ ( /\ op = "stream_to_file"
          /\ dpc = "get"
          /\ gets' = gets + 1
          /\ outcome'.kind = "HTTPError"
          /\ Terminal4xx(outcome'.status) )
        => /\ dpc' = "done"
           /\ ret' = "None"
           /\ sleeps' = sleeps
           /\ retry_delay' = retry_delay
           /\ attempt' = attempt ]_vars

\* C10's case: the first GET met a 404 with every retry still available, and
\* the call has returned null after that one request.
C10_Witness ==
    /\ StreamDone
    /\ outcome = HttpError(404)
    /\ attempt = 0
    /\ gets = 1
    /\ sleeps = <<>>
    /\ ret = "None"

\* C11: in get_bytes and get_string a 4xx status other than 429 is terminal:
\* the request that meets it is the last step of the operation, which
\* returns null without a sleep and without a retry.
C11_GetTerminal4xxAborts ==
    [][ ( /\ op \in {"get_string", "get_bytes"}
          /\ dpc = "request"
          /\ gets' = gets + 1
          /\ outcome'.kind = "HTTPError"
          /\ outcome'.status \in 400..499
          /\ outcome'.status # 429 )
        => /\ dpc' = "done"
           /\ ret' = "None"
           /\ sleeps' = sleeps
           /\ attempt' = attempt ]_vars

\* C12: a 416 met by a resumed transfer deletes the partial file and
\* restarts the transfer with resume disabled: the GET of the restarted
\* call carries no Range header, its byte counter starts at 0, and it
\* writes the whole resource into an empty file.
C12_Restart416 ==
    [][ /\ ( /\ op = "stream_to_file"
             /\ dpc = "get"
             /\ gets' = gets + 1
             /\ outcome' = HttpError(416)
             /\ args.allow_resume
             /\ args.resume_bytes > 0 )
           => /\ dfile' = NoFile
              /\ depth' = depth + 1
              /\ dpc' = "attempt"
              /\ attempt' = 0
              /\ ~args'.allow_resume
              /\ args'.resume_bytes = 0
        /\ (depth' > 0 /\ dpc' = "get")
           => /\ resume_header' = -1
              /\ bytes_downloaded' = 0
        /\ (depth' > 0 /\ dpc = "get" /\ dpc' = "stream")
           => /\ dfile' = [exists |-> TRUE, data |-> <<>>]
              /\ body' = Resource ]_vars

\* C12's case: a resumed transfer met a 416 and the restarted call has
\* fetched the whole resource from byte 0.
C12_Witness ==
    /\ StreamDone
    /\ depth = 1
    /\ resume_header = -1
    /\ ret = "file_path"
    /\ dfile.data = Resource

\* C13: after a completed stream whose file size differs from the known
\* total, with attempts remaining, the next attempt is a full restart: the
\* file is gone and the request carries no Range header.  (Stated for
\* calls made as download_prod makes them; an attempt that follows an
\* attempt whose GET and stream raised nothing follows a size mismatch.)
C13_MismatchRestartsFromZero ==
    ( /\ op = "stream_to_file"
      /\ dpc \in {"head", "get"}
      /\ attempt > 0
      /\ args.allow_resume
      /\ args.parent_window = "None"
      /\ outcome.kind = "ok" )
    => /\ ~dfile.exists
       /\ resume_header = -1

\* C14: when a resuming call with unknown total has its HEAD request fail
\* and the ranged GET then streams the remaining bytes completely, the call
\* returns the path and leaves the complete file in place.
C14_HeadFailureNotFatal ==
    [][ ( /\ op = "stream_to_file"
          /\ dpc = "verify"
          /\ dpc' # "verify"
          /\ depth = 0
          /\ attempt = 0
          /\ args.allow_resume
          /\ args.resume_bytes > 0
          /\ args.total_bytes = -1
          /\ head = "failed"
          /\ outcome.kind = "ok"
          /\ body = <<>>
          /\ dfile.data = Resource )
        => /\ ret' = "file_path"
           /\ dfile' = dfile ]_vars

\* download_prod has ended, by returning or by raising.
DownloadProdDone == bpc = "done"

\* The positions, in order, of the files whose stream_to_file returned null.
ReturnedNull ==
    SelectSeq([i \in 1..Len(returned) |-> i], LAMBDA i : returned[i][1] = "None")

\* C15: a file whose stream_to_file returned null because the flag was set
\* while it was streaming is not in the list of failed downloads, and
\* download_prod ends with CancelledError, not with the aggregate error,
\* whatever the file's position.
C15_CancelIsNotFailure ==
    \A i \in 1..Len(returned) :
        (returned[i] = <<"None", TRUE>> /\ ~cancelled_outside) =>
            /\ \A j \in 1..Len(failed_downloads) : failed_downloads[j] # i
            /\ DownloadProdDone => raised = "CancelledError"

\* C16: once the flag is set while stream_to_file or download_image is
\* streaming, at most one further chunk is written to the destination, a
\* progress callback is delivered only together with that chunk, and
\* stream_to_file issues no further request.
C16_CancelWithinOneChunk ==
    [][ /\ late_chunks' <= 1
        /\ recovery_late_chunks' <= 1
        /\ (cancel_event /\ op = "stream_to_file" /\ dpc \notin {"idle", "done"})
           => /\ gets' = gets
              /\ Len(callbacks') > Len(callbacks) => late_chunks' = late_chunks + 1
        /\ (recovery_cancel_event /\ rpc \notin {"idle", "done"})
           => (progress' # progress => recovery_late_chunks' = recovery_late_chunks + 1)
      ]_vars

\* C16's case: the flag was set between the check and the write of a
\* chunk; the chunk was written, nothing after it, and the call returned.
C16_Witness ==
    /\ StreamDone
    /\ cancel_event
    /\ late_chunks = 1
    /\ body # <<>>
    /\ ret = "None"

\* C17: when download_image observes the flag at a chunk boundary, no file
\* is left at the destination once download_recovery_image has ended as
\* cancelled.
C17_CancelledLeavesNoFile ==
    (rpc = "done" /\ raised_in = "_check_cancellation")
    => /\ rresult = <<"Failed to download recovery image", CANCELLED>>
       /\ ~rfile.exists

\* C17's case: the flag was observed after a chunk had been written.
C17_Witness ==
    /\ rpc = "done"
    /\ raised_in = "_check_cancellation"
    /\ downloaded > 0
    /\ rbody # <<>>
    /\ ~rfile.exists

\* C18: as long as the flag is not set, download_prod calls stream_to_file
\* for the files of the list in order, whatever the earlier calls returned,
\* raises nothing before the last call has returned, and ends with the
\* aggregate error exactly if some call returned null; the list of failed
\* downloads holds exactly the files whose call returned null.
C18_BatchContinuesPastFailures ==
    (bpc \in {"loop", "streaming", "done"} /\ dl_list > 0 /\ ~cancel_event) =>
        /\ attempted = [i \in 1..Len(attempted) |-> i]
        /\ Len(attempted) = (IF bpc = "streaming" THEN position ELSE position - 1)
        /\ failed_downloads = ReturnedNull
        /\ ~DownloadProdDone => raised = "none"
        /\ DownloadProdDone =>
              /\ Len(attempted) = dl_list
              /\ Len(returned) = dl_list
              /\ raised = (IF ReturnedNull # <<>>
                           THEN "ProgramError: files failed to download"
                           ELSE "none")

\* C18's case: the first of two files failed, the second was downloaded,
\* and the aggregate error names the first.
C18_Witness ==
    /\ DownloadProdDone
    /\ ~cancel_event
    /\ dl_list = 2
    /\ attempted = <<1, 2>>
    /\ returned[1][1] = "None"
    /\ returned[2][1] = "file_path"
    /\ failed_downloads = <<1>>
    /\ raised = "ProgramError: files failed to download"

\* C19: when the destination exists and stream_to_file is called with
\* resume offset 0, and the overwrite is declined or nobody can be asked,
\* the call returns null at once: no request is issued and the file is as
\* it was.
C19_DeclinedLeavesFile ==
    [][ ( /\ op' = "stream_to_file"
          /\ nops' = nops + 1
          /\ dfile.exists
          /\ args'.resume_bytes = 0
          /\ overwrite' \in {"no", "not asked"} )
        => /\ dpc' = "done"
           /\ ret' = "None"
           /\ gets' = 0
           /\ dfile' = dfile ]_vars

\* C19's case: the dialog was shown, the answer was no, and the file that
\* was there is still there.
C19_Witness ==
    /\ StreamDone
    /\ overwrite = "no"
    /\ ret = "None"
    /\ gets = 0
    /\ dfile = [exists |-> TRUE, data |-> Prefix(1)]

\* C20: within one attempt of stream_to_file the values passed to the
\* callback start right after the attempt's start offset (resume_bytes,
\* which is the offset of the request's Range whenever resume is allowed)
\* and grow by exactly one chunk with each chunk written.
C20_CallbacksMonotone ==
    op = "stream_to_file" =>
        /\ \A i \in 1..Len(callbacks) : callbacks[i] = args.resume_bytes + i
        /\ dpc \in {"stream", "write"} =>
              /\ bytes_downloaded = args.resume_bytes + Len(callbacks)
              /\ Len(callbacks) + Len(body) = ResourceLen - RangeOffset
              /\ (args.allow_resume \/ args.resume_bytes = 0)
                    => RangeOffset = args.resume_bytes

\* C20's case: a resumed attempt has delivered two callbacks.
C20_Witness ==
    /\ op = "stream_to_file"
    /\ args.resume_bytes > 0
    /\ Len(callbacks) >= 2

\* C21: an attempt that follows a restart inside stream_to_file (the call
\* the 416 fallback makes, or the attempt after a size mismatch) starts its
\* counter at zero, so that its first callback reports the bytes written
\* since the restart.  (Stated for calls whose resume offset goes with
\* allow_resume, as the callers in the repository make them.)
C21_RestartResetsCounter ==
    [][ ( /\ op = "stream_to_file"
          /\ dpc = "attempt"
          /\ dpc' \in {"head", "get"}
          /\ args.allow_resume \/ args.resume_bytes = 0
          /\ \/ depth > 0 /\ attempt = 0
             \/ attempt > 0 /\ outcome.kind = "ok" )
        => bytes_downloaded' = 0 ]_vars

\* C22 as stated: when stream_to_file finds the flag set in its chunk loop
\* and returns, no file is left at the destination.
C22_CancelledLeavesNoPartialFile ==
    [][ ( /\ op = "stream_to_file"
          /\ dpc = "stream"
          /\ body # <<>>
          /\ cancel_event
          /\ dpc' = "done" )
        => ~dfile'.exists ]_vars

\* C22 as the code has it: when stream_to_file finds the flag set in its
\* chunk loop it returns null and leaves the destination as it is, with
\* every chunk written so far; download_prod removes nothing either.
C22_CancelledLeavesPartialFile ==
    [][ /\ ( /\ op = "stream_to_file"
             /\ dpc = "stream"
             /\ body # <<>>
             /\ cancel_event
             /\ dpc' = "done" )
           => /\ ret' = "None"
              /\ dfile'.exists
              /\ dfile' = dfile
        /\ (bpc = "streaming" /\ bpc' = "loop" /\ position = dl_list)
           => dfile' = dfile
        /\ (bpc = "loop" /\ bpc' = "done") => dfile' = dfile ]_vars

\* C22's case: the only file of a product was cancelled after one chunk;
\* download_prod has ended and the chunk is still on disk.
C22_Witness ==
    /\ DownloadProdDone
    /\ dl_list = 1
    /\ returned = << <<"None", TRUE>> >>
    /\ ~cancelled_outside
    /\ body # <<>>
    /\ callbacks # <<>>
    /\ dfile.exists
    /\ FileSize > 0
    /\ FileSize < ResourceLen

\* The requests of the call numbered c, in the order they were sent.
QueriesOf(c) == SelectSeq(queries, LAMBDA q : q.call = c)

\* download_recovery_image has returned or raised.
RecoveryDone == rpc = "done"

\* C23: every image-info request carries the session cookie, which a
\* get_session that found it has stored; every image request follows, in
\* its call, an image-info request whose answer had all required keys; and
\* a call that failed in get_session or in get_image_info has sent nothing
\* after the request that failed.
C23_SessionThenInfoThenImage ==
    /\ \A i \in 1..Len(queries) :
          /\ queries[i].kind = "image-info" =>
                /\ queries[i].cookie # NoCookie
                /\ queries[i].cookie = session
                /\ \E j \in 1..(i - 1) :
                      /\ queries[j].kind = "session"
                      /\ queries[j].answered
                      /\ FindSession(queries[j].data) = session
          /\ queries[i].kind = "image" =>
                /\ i > 1
                /\ queries[i - 1].call = queries[i].call
                /\ queries[i - 1].kind = "image-info"
                /\ queries[i - 1].answered
                /\ INFO_REQUIRED \subseteq DOMAIN ParseInfo(queries[i - 1].data)
    /\ (RecoveryDone /\ raised_in = "get_session") =>
          \A i \in 1..Len(QueriesOf(rcalls)) : QueriesOf(rcalls)[i].kind = "session"
    /\ (RecoveryDone /\ raised_in = "get_image_info") =>
          \A i \in 1..Len(QueriesOf(rcalls)) : QueriesOf(rcalls)[i].kind # "image"

\* C23's case: a first call went through the three requests in order and
\* returned the path.
C23_Witness ==
    /\ RecoveryDone
    /\ rcalls = 1
    /\ rresult = <<"filepath", "">>
    /\ Len(queries) = 3
    /\ queries[1].kind = "session"
    /\ queries[2].kind = "image-info"
    /\ queries[3].kind = "image"

\* The request the step at hand has sent, if it has sent one.
Sent(kind) ==
    /\ Len(queries') = Len(queries) + 1
    /\ queries'[Len(queries')].kind = kind

\* C24: once the instance has a session, no step changes it and no step
\* sends a session request, whatever the number of calls; a get_session
\* that fails leaves the instance without one, and a call that finds the
\* instance without one goes through get_session again.
C24_SessionObtainedOnce ==
    [][ /\ session # NoCookie =>
              /\ session' = session
              /\ ~Sent("session")
        /\ (rpc = "get_session" /\ rpc' = "done") => session' = NoCookie
        /\ (rpc = "get_image_info" /\ rpc' \notin {"get_image_info", "done"}) =>
              rpc' = (IF session = NoCookie THEN "get_session" ELSE "image_info")
        /\ Sent("image-info") => queries'[Len(queries')].cookie = session
      ]_vars

\* C24's case: the second call on an instance that has a session sends its
\* image-info request with the cookie of the first and no session request.
C24_Witness ==
    /\ rcalls = 2
    /\ Len(QueriesOf(1)) >= 2
    /\ QueriesOf(1)[1].kind = "session"
    /\ QueriesOf(1)[2].kind = "image-info"
    /\ Len(QueriesOf(2)) >= 1
    /\ QueriesOf(2)[1].kind = "image-info"
    /\ QueriesOf(2)[1].cookie = QueriesOf(1)[2].cookie
    /\ \A i \in 1..Len(QueriesOf(2)) : QueriesOf(2)[i].kind # "session"

\* The Set-Cookie header cookies carries a cookie that starts with
\* "session=".
CarriesSession(cookies) ==
    \E i \in 1..Len(cookies) : cookies[i][1] = "session"

\* C25: a session request whose answer carries no "session=" cookie ends
\* the call with a ProgramError, leaves the instance without a session, and
\* is the last request of its call: no image-info request follows it.
C25_NoSessionCookieIsFatal ==
    \A i \in 1..Len(queries) :
        ( /\ queries[i].kind = "session"
          /\ queries[i].answered
          /\ ~CarriesSession(queries[i].data) )
        => /\ i < Len(queries) => queries[i + 1].call > queries[i].call
           /\ queries[i].call = rcalls =>
                 /\ RecoveryDone
                 /\ rresult = <<"Failed to download recovery image",
                                "No session found in server response">>
                 /\ raised_in = "get_session"
           /\ i = Len(queries) => session = NoCookie

\* C25's case: the answer had a Set-Cookie header with cookies, none of them
\* the session's.
C25_Witness ==
    /\ RecoveryDone
    /\ Len(queries) = 1
    /\ queries[1].kind = "session"
    /\ queries[1].answered
    /\ queries[1].data # <<>>
    /\ ~CarriesSession(queries[1].data)
    /\ session = NoCookie

\* The keys of the answer's lines of the form "KEY: VALUE".
KeysOf(lines) == {lines[i][1] : i \in {j \in 1..Len(lines) : Len(lines[j]) = 2}}

\* C26: an answered image-info request leads on to download_image, with
\* the mapping holding all seven keys, exactly if the answer's lines give
\* all seven; otherwise the call ends with a ProgramError in that step,
\* with no image request sent and the destination as it was; and a call
\* that has ended touches nothing more.
C26_AllKeysMandatory ==
    [][ /\ (Sent("image-info") /\ queries'[Len(queries')].answered) =>
              IF INFO_REQUIRED \subseteq KeysOf(queries'[Len(queries')].data)
              THEN /\ rpc' = "download_image"
                   /\ INFO_REQUIRED \subseteq DOMAIN info'
              ELSE /\ rpc' = "done"
                   /\ rresult' = <<"Failed to download recovery image",
                                   "Missing required keys in server response">>
                   /\ rfile' = rfile
        /\ RecoveryDone => (rfile' = rfile /\ queries' = queries)
        /\ Sent("image") => INFO_REQUIRED \subseteq DOMAIN info
      ]_vars

\* C26's case: one key was missing from the answer; the call ended after
\* two requests and there is no file.
C26_Witness ==
    /\ RecoveryDone
    /\ rcalls = 1
    /\ Len(queries) = 2
    /\ queries[2].kind = "image-info"
    /\ queries[2].answered
    /\ INFO_REQUIRED \ KeysOf(queries[2].data) = {"CT"}
    /\ rresult[2] = "Missing required keys in server response"
    /\ ~rfile.exists

-----------------------------------------------------------------------------
(* Claims about the manifest's structure *)

\* The header violations the verifier must reject, stated on the fields.
HeaderViolation(hdr) ==
    \/ hdr.magic # "CNKL"
    \/ hdr.header_size # 36
    \/ hdr.file_version # 1
    \/ hdr.chunk_method # 1
    \/ hdr.signature_method \notin {1, 2}
    \/ hdr.chunk_offset # 36
    \/ hdr.signature_offset # 36 + 36 * hdr.chunk_count

\* The chunk table is cut: fewer units than the header's records need.
TableTruncated(cl) ==
    /\ cl.exists
    /\ ~cl.short
    /\ ~HeaderViolation(cl.hdr)
    /\ cl.hdr.chunk_count > 0
    /\ Len(cl.body) < CHUNK_UNITS * cl.hdr.chunk_count

\* The table is whole and the signature region is cut.
SignatureTruncated(cl) ==
    /\ cl.exists
    /\ ~cl.short
    /\ ~HeaderViolation(cl.hdr)
    /\ cl.hdr.chunk_count > 0
    /\ Len(cl.body) >= CHUNK_UNITS * cl.hdr.chunk_count
    /\ Len(cl.body) < BodyLen(cl.hdr)

\* The caller that iterates verify_chunklist has seen it end.
IterateDone == caller = "verify_chunklist" /\ vpc = "done"

\* C27: verify_chunklist rejects every structural violation of the header
\* (magic, header size, file version, chunk method, signature method,
\* chunk-table offset, signature offset) and a header cut short with a
\* ValueError raised by the first next(), before any chunk record is
\* yielded; a truncated chunk table or signature ends the generator with a
\* ValueError too, never normally.
C27_StructuralViolationsRaise ==
    /\ ( /\ chunklist.exists
         /\ chunklist.short \/ HeaderViolation(chunklist.hdr) )
       =>
         /\ gpc \in {"start", "raised"}
         /\ yielded = 0
         /\ gpc = "raised" =>
              /\ ErrorType(gerr) = "ValueError"
              /\ chunklist.short <=> gerr = "Invalid chunklist: header too short"
         /\ IterateDone => result = "ValueError"
         /\ (VerifyFileDone /\ file.exists) => result = "False"
    /\ TableTruncated(chunklist) =>
         /\ gpc \in {"start", "chunks", "raised"}
         /\ yielded <= Len(chunklist.body) \div CHUNK_UNITS
         /\ gpc = "raised" => gerr = "Invalid chunklist: chunk data truncated"
         /\ IterateDone => result = "ValueError"
    /\ SignatureTruncated(chunklist) =>
         /\ gpc \in {"start", "chunks", "raised"}
         /\ gpc = "raised" =>
              gerr = (IF chunklist.hdr.signature_method = 1
                      THEN "Invalid chunklist: signature truncated"
                      ELSE "Invalid chunklist: hash verification failed")
         /\ IterateDone => result = "ValueError"

\* C27's case: a header whose only fault is the signature offset, iterated
\* to its end: the error was raised with no record yielded.
C27_Witness ==
    /\ IterateDone
    /\ ~chunklist.short
    /\ chunklist.hdr.signature_offset # 36 + 36 * chunklist.hdr.chunk_count
    /\ chunklist.hdr = [GoodHeader(chunklist.hdr.signature_method, chunklist.hdr.chunk_count)
                          EXCEPT !.signature_offset = chunklist.hdr.signature_offset]
    /\ gerr = "Invalid chunklist: wrong signature offset"
    /\ yielded = 0
    /\ result = "ValueError"

\* Units follow the signature region of a manifest with an acceptable header.
TrailingBytes(cl) ==
    /\ cl.exists
    /\ ~cl.short
    /\ ~HeaderViolation(cl.hdr)
    /\ cl.hdr.chunk_count > 0
    /\ Len(cl.body) > BodyLen(cl.hdr)

\* The units of the signature region itself, without what follows it.
SignatureUnits(cl) ==
    Read(cl.body, CHUNK_UNITS * cl.hdr.chunk_count,
         IF cl.hdr.signature_method = 1 THEN SIG_UNITS ELSE HASH_UNITS)

\* Header, chunk table and signature region are valid for the manifest's
\* method: the signature decrypts to the padded digest (method 1), the bare
\* hash is the digest (method 2).
OtherwiseValid(cl) ==
    /\ TrailingBytes(cl)
    /\ IF cl.hdr.signature_method = 1
       THEN Pow(FromBytesLittle(SignatureUnits(cl)), PUBLIC_EXPONENT,
                APPLE_EFI_ROM_PUBLIC_KEY_1) = Plaintext(SignedDigest(cl))
       ELSE SignatureUnits(cl) = <<SignedDigest(cl)>>

\* C28 as stated: a unit after the signature region of an otherwise valid
\* manifest makes verify_chunklist end with a structural error (a ValueError,
\* the class of every malformed-manifest error), whichever the signature
\* method, and verify_file_against_chunklist return False.
C28_TrailingBytesAreStructuralError ==
    TrailingBytes(chunklist) =>
      /\ gpc # "done"
      /\ (gpc = "raised" /\ OtherwiseValid(chunklist)) =>
           ErrorType(gerr) = "ValueError"
      /\ (VerifyFileDone /\ file.exists) => result = "False"

\* C28, amended: a unit after the signature region makes verify_chunklist
\* fail and verify_file_against_chunklist return False, whichever the
\* signature method; for an otherwise valid method-1 manifest the error is
\* the structural "extra data after signature" ValueError, while a method-2
\* manifest never reaches that check: it has already failed, with the
\* missing-signature RuntimeError when its bare hash matches.
C28_TrailingBytesFail ==
    TrailingBytes(chunklist) =>
      /\ gpc # "done"
      /\ (gpc = "raised" /\ OtherwiseValid(chunklist)) =>
           gerr = (IF chunklist.hdr.signature_method = 1
                   THEN "Invalid chunklist: extra data after signature"
                   ELSE "Chunklist missing digital signature")
      /\ (gpc = "raised" /\ chunklist.hdr.signature_method = 2) =>
           gerr # "Invalid chunklist: extra data after signature"
      /\ (IterateDone /\ OtherwiseValid(chunklist)) =>
           result = (IF chunklist.hdr.signature_method = 1
                     THEN "ValueError" ELSE "RuntimeError")
      /\ (VerifyFileDone /\ file.exists) => result = "False"

\* C28's case: a method-1 manifest, valid but for one unit after its
\* signature, every chunk of the file matching: the trailing check has
\* raised and the verification has answered False.
C28_Witness ==
    /\ VerifyFileDone
    /\ OtherwiseValid(chunklist)
    /\ chunklist.hdr.signature_method = 1
    /\ IsExactly(ChunkRecords(chunklist), file.data)
    /\ gerr = "Invalid chunklist: extra data after signature"
    /\ result = "False"

-----------------------------------------------------------------------------
(* Claims about the signature check *)

\* The signature check of a method-1 manifest has let the generator go on.
SignatureAccepted == gpc \in {"trailing", "done"}

\* The signature check of a method-1 manifest has raised.
SignatureRejected ==
    gpc = "raised" /\ gerr = "Invalid chunklist: signature verification failed"

-----------------------------------------------------------------------------
(* Claims about what verify_file_against_chunklist reports *)

\* The manifest is missing, structurally malformed, unsigned (method 2) or
\* wrongly signed.
ManifestProblem(cl) ==
    \/ ~cl.exists
    \/ cl.short
    \/ HeaderViolation(cl.hdr)
    \/ cl.hdr.chunk_count <= 0
    \/ Len(cl.body) # BodyLen(cl.hdr)
    \/ cl.hdr.signature_method = 2
    \/ ~ValidSignature(cl)

\* C30: verify_file_against_chunklist reports manifest problems as a
\* boolean: for a manifest that is missing, malformed, unsigned or wrongly
\* signed it returns False without raising; the only exception it raises is
\* FileNotFoundError, and it raises it exactly when the target file does
\* not exist.
C30_ManifestProblemsAreFalse ==
    VerifyFileDone =>
      /\ result \in {"True", "False", "FileNotFoundError"}
      /\ result = "FileNotFoundError" <=> ~file.exists
      /\ (file.exists /\ ManifestProblem(chunklist)) => result = "False"
      /\ (file.exists /\ gpc = "raised") => result = "False"

\* C30's case: the target file is there and the manifest is not: the
\* generator's FileNotFoundError has been turned into False.
C30_Witness ==
    /\ VerifyFileDone
    /\ file.exists
    /\ ~chunklist.exists
    /\ gpc = "raised"
    /\ ErrorType(gerr) = "FileNotFoundError"
    /\ result = "False"

-----------------------------------------------------------------------------
(* Claims about the bounds of one stream_to_file call *)

\* C32: a stream_to_file call issues at most 2 * (max_retries + 1) GET
\* requests whatever the server does: the 416 fallback re-enters the
\* operation at most once, because the restarted transfer has resume
\* disabled, so a further 416 does not restart again; inside either
\* transfer the loop index stays within range(max_retries + 1).
C32_BoundedGets ==
    op = "stream_to_file" =>
      /\ depth <= 1
      /\ depth = 1 => (~args.allow_resume /\ args.resume_bytes = 0)
      /\ attempt <= Attempts
      /\ gets <= (depth + 1) * Attempts
      /\ gets <= 2 * (MAX_RETRIES + 1)

\* C32's case: the bound is met: a call has ended after 2 * (max_retries + 1)
\* GET requests, the last of them in the restarted transfer.
C32_Witness ==
    /\ op = "stream_to_file"
    /\ dpc = "done"
    /\ depth = 1
    /\ gets = 2 * (MAX_RETRIES + 1)
    /\ ret = "None"

\* C33: stream_to_file returns the file path only if the expected total is
\* unknown (total <= 0) or the destination's size on disk equals it; and
\* when the last allowed attempt still ends with a size mismatch (the only
\* way the loop index runs out of its range) the call returns None.
C33_PathOnlyIfSizeMatches ==
    op = "stream_to_file" =>
      /\ (dpc = "done" /\ ret = "file_path") =>
           /\ dfile.exists
           /\ total <= 0 \/ FileSize = total
      /\ attempt >= Attempts =>
           /\ dpc \in {"attempt", "done"}
           /\ dfile.exists /\ total > 0 /\ FileSize # total
           /\ dpc = "done" => ret = "None"

\* C33's case: every attempt ended with a size mismatch and the call has
\* returned None, the mismatching file of the last attempt still on disk.
C33_Witness ==
    /\ op = "stream_to_file"
    /\ dpc = "done"
    /\ attempt = Attempts
    /\ gets = Attempts
    /\ total > 0
    /\ FileSize # total
    /\ ret = "None"

-----------------------------------------------------------------------------
(* Claims about the files download_prod finds at its destinations *)

\* C36: in download_prod stream_to_file never refuses a file because it
\* already exists: a destination that exists with length zero is downloaded
\* again, so a call that returned without the flag ever set has issued a GET
\* request.
C36_EmptyFileDownloadedAgain ==
    ( /\ bpc = "streaming"
      /\ op = "stream_to_file"
      /\ dpc = "done"
      /\ ~cancel_event )
    => gets > 0

-----------------------------------------------------------------------------
(* Claims about the parse of the image-info answer *)

\* Line i of the answer is well-formed for key k: it splits at ": " into
\* exactly the key and a value.
WellFormedLine(lines, i, k) == Len(lines[i]) = 2 /\ lines[i][1] = k

\* The value of the last well-formed line for key k.
LastValue(lines, k) ==
    LET i == CHOOSE n \in 1..Len(lines) :
                /\ WellFormedLine(lines, n, k)
                /\ \A m \in (n + 1)..Len(lines) : ~WellFormedLine(lines, m, k)
    IN lines[i][2]

\* All seven mandatory keys arrive on well-formed lines.
AllKeysArrive(lines) ==
    \A k \in INFO_REQUIRED : \E i \in 1..Len(lines) : WellFormedLine(lines, i, k)

\* Some line of the answer does not split into exactly two parts.
HasMalformedLine(lines) == \E i \in 1..Len(lines) : Len(lines[i]) # 2

\* C35: get_image_info skips a line that does not split into exactly two
\* parts on ": ": when the answer carries all seven mandatory keys on
\* well-formed lines the call does not fail, whatever other lines there
\* are, and each key's value is that of its last well-formed line.
C35_LenientParse ==
    [][ ( /\ rpc = "image_info"
          /\ Len(queries') = Len(queries) + 1
          /\ queries'[Len(queries')].answered
          /\ AllKeysArrive(queries'[Len(queries')].data) )
        => /\ rpc' = "download_image"
           /\ raised_in' = "none"
           /\ INFO_REQUIRED \subseteq DOMAIN info'
           /\ \A k \in INFO_REQUIRED :
                  info'[k] = LastValue(queries'[Len(queries')].data, k) ]_vars

\* C35's case: an answer with an empty line, a second line for AT and a
\* third AT line that does not split in two: the call went on, and the
\* image was requested with the token of the second line.
C35_Witness ==
    /\ rpc = "check"
    /\ Len(queries) >= 2
    /\ LET q == queries[Len(queries) - 1] IN
         /\ q.kind = "image-info"
         /\ q.answered
         /\ HasMalformedLine(q.data)
         /\ \E i, j \in 1..Len(q.data) :
               i < j /\ WellFormedLine(q.data, i, "AT") /\ WellFormedLine(q.data, j, "AT")
    /\ info["AT"] = "t2"
    /\ queries[Len(queries)].cookie = <<"AssetToken", "t2">>

-----------------------------------------------------------------------------
(* Claims about the image file download_image leaves *)

\* download_image of the call at hand has opened its destination: the image
\* request is the last the instance sent, and it was answered.
ImageOpened ==
    /\ queries # <<>>
    /\ queries[Len(queries)].kind = "image"
    /\ queries[Len(queries)].call = rcalls
    /\ queries[Len(queries)].answered

\* C39: once download_image has opened the file and the call has ended, the
\* file is gone exactly when the stream was aborted by cancellation; when
\* the read fails for another reason the chunks written so far are left on
\* disk and the error propagates; on the normal end of the stream the file
\* is kept and its path returned.
C39_PartialDeletedOnlyOnCancel ==
    (rpc = "done" /\ ImageOpened) =>
      /\ ~rfile.exists <=> raised_in = "_check_cancellation"
      /\ raised_in = "read" =>
           /\ rresult = <<"Failed to download recovery image", "read failed">>
           /\ rfile.data = Prefix(downloaded)
      /\ raised_in = "none" =>
           /\ rresult = <<"filepath", "">>
           /\ rfile.data = Prefix(downloaded)
      /\ raised_in \in {"_check_cancellation", "read", "none"}

\* C39's case: the read failed after a chunk had been written: the error
\* has left download_recovery_image and the partial file is on disk.
C39_Witness ==
    /\ rpc = "done"
    /\ ImageOpened
    /\ raised_in = "read"
    /\ downloaded > 0
    /\ rfile.exists
    /\ rfile.data = Prefix(downloaded)
    /\ downloaded < ResourceLen

-----------------------------------------------------------------------------
(* Claims about what the recovery dialog's worker reports *)

\* The flag was found set at a check point of download_recovery_image: the
\* entry of get_session, the entry of get_image_info, or a chunk boundary
\* of download_image.
CancellationObserved ==
    /\ rpc = "done"
    /\ raised_in \in {"get_session", "get_image_info", "_check_cancellation"}
    /\ rresult[2] = CANCELLED

\* C34: a recovery download whose cancellation was observed at a check
\* point is reported as cancelled: its worker schedules _download_cancelled,
\* never _download_error or _download_complete, and no handler is scheduled
\* before download_recovery_image has ended.
C34_CancelledIsReportedCancelled ==
    /\ CancellationObserved => handler \in {"none", "_download_cancelled"}
    /\ handler # "none" => rpc = "done"

\* C34's case: the flag was observed at a chunk boundary after a chunk had
\* been written, and the worker has scheduled _download_cancelled.
C34_Witness ==
    /\ CancellationObserved
    /\ raised_in = "_check_cancellation"
    /\ downloaded > 0
    /\ handler = "_download_cancelled"

-----------------------------------------------------------------------------
(* The main window: its controls, its queue and its worker threads *)

\* The worker threads one run of the window starts, at most.
MaxThreads == 3

\* The controls whose handler starts an operation, each with the worker its
\* handler starts.  set_su_button and clear_su_button start one on macOS only:
\* elsewhere their handlers return at once.
Starters ==
    { <<"refresh_button", "fetch_products_task">>,
      <<"catalog_dropdown", "fetch_products_task">>,
      <<"max_macos_entry", "fetch_products_task">>,
      <<"find_recovery_checkbox", "fetch_products_task">>,
      <<"download_button", "download_task">>,
      <<"set_su_button", "run_command">>,
      <<"clear_su_button", "run_command">> }

\* The controls _set_ui_state configures; refresh_button is not among them.
Configured ==
    {"catalog_dropdown", "max_macos_entry", "find_recovery_checkbox",
     "caffeinate_checkbox", "save_local_checkbox", "force_local_checkbox",
     "browse_dir_button", "set_su_button", "clear_su_button", "product_tree",
     "download_button", "internet_recovery_button", "cancel_button",
     "show_console_checkbox"}

\* The control takes the user's input.  cancel_button is NORMAL exactly when
\* the others are disabled and show_console_checkbox always; a control
\* _set_ui_state never configures keeps the NORMAL state it was created with.
Enabled(control) ==
    CASE control = "cancel_button" -> ~ui_enabled
      [] control = "show_console_checkbox" -> TRUE
      [] OTHER -> control \in Configured => ui_enabled

\* The flag left as it is.
ClearNothing(flag) == flag

\* threading.Event.clear, as every handler calls it before it creates its
\* thread.
Clear(flag) == FALSE

\* A thread as its handler starts it.  started_after: the earlier threads
\* whose ui_state message _check_queue had processed by then.
NewThread(target) ==
    [target |-> target, pc |-> "backend", cancelled |-> FALSE, requested |-> FALSE,
     processed |-> FALSE,
     started_after |-> {w \in DOMAIN threads : threads[w].processed}]

\* The threads that have not returned from their target.
Alive == {w \in DOMAIN threads : threads[w].pc # "dead"}

\* A cancellation is requested: it is a request for every operation started
\* so far.
Requested == [w \in DOMAIN threads |-> [threads[w] EXCEPT !.requested = TRUE]]

\* _refresh_products, _download_selected (with a product selected and the
\* question answered yes), _set_su_catalog and _clear_su_catalog, called by
\* the control: _set_ui_state(False), cancel_event.clear(), the thread
\* created, assigned to current_thread and started.
StartOperation(control, target) ==
    /\ ~closed
    /\ ~confirm
    /\ Len(threads) < MaxThreads
    /\ Enabled(control)
    /\ ui_enabled' = FALSE
    /\ gui_cancel_event' = Clear(gui_cancel_event)
    /\ threads' = Append(threads, NewThread(target))
    /\ current_thread' = Len(threads) + 1
    /\ UNCHANGED <<download_queue, confirm, closed>>

\* The try block of the worker: the backend work ends, by a return or an
\* exception; sees: at one of its checks it found the flag set.
WorkerBackend(w, sees) ==
    /\ w \in DOMAIN threads
    /\ threads[w].pc = "backend"
    /\ sees => gui_cancel_event
    /\ threads' = [threads EXCEPT ![w].pc = "finally", ![w].cancelled = sees]
    /\ UNCHANGED <<download_queue, ui_enabled, current_thread, gui_cancel_event,
                   confirm, closed>>

\* The finally block of the worker, first statement of the two that matter:
\* _queue_ui_state(True).
WorkerQueueUiState(w) ==
    /\ w \in DOMAIN threads
    /\ threads[w].pc = "finally"
    /\ download_queue' = Append(download_queue, <<"ui_state", TRUE>>)
    /\ threads' = [threads EXCEPT ![w].pc = "queued"]
    /\ UNCHANGED <<ui_enabled, current_thread, gui_cancel_event, confirm, closed>>

\* The finally block of the worker, last statement: self.current_thread =
\* None; the thread ends.
WorkerClearThread(w) ==
    /\ w \in DOMAIN threads
    /\ threads[w].pc = "queued"
    /\ current_thread' = 0
    /\ threads' = [threads EXCEPT ![w].pc = "dead"]
    /\ UNCHANGED <<download_queue, ui_enabled, gui_cancel_event, confirm, closed>>

\* _check_queue on the main thread, with messages waiting: it takes them all,
\* and each ui_state message calls _set_ui_state with its value.  The timer
\* also fires while the "Confirm Cancel" question is open.
CheckQueue ==
    /\ ~closed
    /\ download_queue # <<>>
    /\ ui_enabled' = download_queue[Len(download_queue)][2]
    /\ download_queue' = <<>>
    /\ threads' = [w \in DOMAIN threads |->
                     IF threads[w].pc \in {"queued", "dead"}
                     THEN [threads[w] EXCEPT !.processed = TRUE]
                     ELSE threads[w]]
    /\ UNCHANGED <<current_thread, gui_cancel_event, confirm, closed>>

\* _cancel_operation: the question is asked.
CancelOperation ==
    /\ ~closed
    /\ ~confirm
    /\ Enabled("cancel_button")
    /\ confirm' = TRUE
    /\ UNCHANGED <<threads, download_queue, ui_enabled, current_thread,
                   gui_cancel_event, closed>>

\* _cancel_operation: the question is answered, and yes sets the flag.
ConfirmCancel(yes) ==
    /\ ~closed
    /\ confirm
    /\ confirm' = FALSE
    /\ IF yes
       THEN /\ gui_cancel_event' = TRUE
            /\ threads' = Requested
       ELSE UNCHANGED <<gui_cancel_event, threads>>
    /\ UNCHANGED <<download_queue, ui_enabled, current_thread, closed>>

\* _on_close: the flag is set and the thread joined, for two seconds at most,
\* when current_thread is an alive thread; the window is destroyed.
OnClose ==
    /\ ~closed
    /\ ~confirm
    /\ IF current_thread # 0 /\ current_thread \in Alive
       THEN /\ gui_cancel_event' = TRUE
            /\ threads' = Requested
       ELSE UNCHANGED <<gui_cancel_event, threads>>
    /\ closed' = TRUE
    /\ UNCHANGED <<download_queue, ui_enabled, current_thread, confirm>>

\* What the main window leaves alone.
nongui == <<vvars, dvars, tvars, rvars, bvars>>

\* The window as __init__ leaves it: _check_queue scheduled and
\* _refresh_products called, its worker started.
InitGui ==
    /\ VerifyIdle
    /\ RecoveryIdle
    /\ BatchIdle
    /\ Constructed
    /\ dfile = NoFile
    /\ threads = << [target |-> "fetch_products_task", pc |-> "backend",
                     cancelled |-> FALSE, requested |-> FALSE, processed |-> FALSE,
                     started_after |-> {}] >>
    /\ download_queue = <<>>
    /\ ui_enabled = FALSE
    /\ current_thread = 1
    /\ gui_cancel_event = FALSE
    /\ confirm = FALSE
    /\ closed = FALSE

\* The user's actions, the timer and the steps of the worker threads.
NextGui ==
    \/ \E s \in Starters : StartOperation(s[1], s[2]) /\ UNCHANGED nongui
    \/ \E w \in 1..MaxThreads, sees \in BOOLEAN : WorkerBackend(w, sees) /\ UNCHANGED nongui
    \/ \E w \in 1..MaxThreads : WorkerQueueUiState(w) /\ UNCHANGED nongui
    \/ \E w \in 1..MaxThreads : WorkerClearThread(w) /\ UNCHANGED nongui
    \/ CheckQueue /\ UNCHANGED nongui
    \/ CancelOperation /\ UNCHANGED nongui
    \/ \E yes \in BOOLEAN : ConfirmCancel(yes) /\ UNCHANGED nongui
    \/ OnClose /\ UNCHANGED nongui

SpecGui == InitGui /\ [][NextGui]_vars

-----------------------------------------------------------------------------
(* One background operation at a time *)

\* The threads that are inside their backend work.
InBackend == {w \in DOMAIN threads : threads[w].pc = "backend"}

\* C31: in the main window at most one background operation runs at a time:
\* no two worker threads are inside their backend work together.
C31_OneOperationAtATime == Cardinality(InBackend) <= 1

-----------------------------------------------------------------------------
(* current_thread and the worker that is alive *)

\* The last statement of worker w runs in this step.
Finishes(w) ==
    /\ w \in DOMAIN threads
    /\ threads[w].pc = "queued"
    /\ threads'[w].pc = "dead"

\* C37: the current_thread = None of a finishing worker never overwrites the
\* reference to a newer worker, one started after the finishing worker's
\* ui_state(True) message had been processed.
C37_NewerReferenceIsKept ==
    [][\A w \in 1..MaxThreads :
         (/\ Finishes(w)
          /\ current_thread # 0
          /\ w \in threads[current_thread].started_after)
         => current_thread' = current_thread]_vars

-----------------------------------------------------------------------------
(* The flag at the start of an operation *)

=============================================================================
